---- MODULE Spec2Model ----
(***************************************************************************)
(* Model of the Kosli Terraform provider: the transport client             *)
(* (pkg/client) and the Create/Read/Update/Delete handlers of the three    *)
(* resource types (internal/provider).                                     *)
(*                                                                         *)
(* Spec          one managed resource under the handlers; the remote API   *)
(*               is the environment: what c.httpClient.Do returns is a     *)
(*               nondeterministic choice among the listed outcomes.        *)
(* TransformSpec toAPIFormat, fromAPIFormat, parseErrorResponse, the Is... *)
(*               helpers and the environment data source, each applied to  *)
(*               bounded inputs.                                           *)
(* ClientSpec    one client operation through c.httpClient, attempt by     *)
(*               attempt, under the retry policy NewClient installs.       *)
(* ConcurrentSpec  several operations on the one client the provider       *)
(*               shares, their attempts interleaved.                       *)
(***************************************************************************)
EXTENDS Integers, Sequences, FiniteSets, TLC

VARIABLES kind, state, op, calls, diags, saved, lastPlan, xf, rt, cc

\* the managed resource and the latest handler invocation
resourceVars == <<kind, state, op, calls, diags, saved, lastPlan>>

\* xf: the latest application of a transformer of pkg/client;
\* rt: the client operation in flight through the HTTP layer;
\* cc: one client and the operations that run on it at the same time
vars == <<resourceVars, xf, rt, cc>>

(***************************************************************************)
(* Bounds of the model.                                                    *)
(***************************************************************************)
\* number of distinct resource names a configuration may use
MaxNames == 2
\* longest included_environments / jq_rules list in a plan
MaxListLen == 1
\* most versions in a response handed to fromAPIFormat
MaxVersions == 2
\* longest jq_rules list handed to toAPIFormat
MaxRules == 2
\* largest retryMax passed to WithRetryPolicy
MaxRetryMax == 2
\* most options handed to NewClient when the options are what is examined
MaxOptions == 2
\* number of operations that run on the shared client at the same time
MaxOperations == 2
\* most fmt.Errorf wrappers around an error handed to the Is... helpers
MaxWrapDepth == 1

(***************************************************************************)
(* Terraform values: a null attribute is <<>>, a known value v is <<v>>.   *)
(***************************************************************************)
Null == <<>>

Some(v) == <<v>>

\* types.String.ValueString(): the empty string for null
ValueString(s) == IF s = Null THEN "" ELSE s[1]

\* sequences over S of length 0..n
SeqUpTo(S, n) == UNION {[1..k -> S] : k \in 0..n}

Field(obj, f, default) == IF f \in DOMAIN obj THEN obj[f] ELSE default

(***************************************************************************)
(* pkg/client: HTTP layer                                                  *)
(***************************************************************************)
\* c.organization, fixed by NewClient
Organization == "org"

\* c.apiToken, fixed by NewClient
APIToken == "test-token"

\* c.userAgent: DefaultUserAgent, or what WithUserAgent set
UserAgent == "terraform-provider-kosli/dev"

\* len(body) < 500 in parseErrorResponse
MaxRawBodyLen == 500

\* a response body that json.Unmarshal decodes: a JSON object
JSONBody(obj) == [isJSON |-> TRUE, obj |-> obj]

\* a response body that json.Unmarshal rejects: its text and its length
RawBody(text, len) == [isJSON |-> FALSE, raw |-> text, len |-> len]

\* the outcome of c.httpClient.Do: a transport error or a response
TransportFailure == [neterr |-> TRUE]

\* Do on a request whose context is cancelled: the context's error
Cancelled == [neterr |-> TRUE, cancelled |-> TRUE]

Response(status, body) == [neterr |-> FALSE, status |-> status, body |-> body]

\* net/http StatusText for the statuses the model uses
StatusText(status) ==
    CASE status = 200 -> "OK"
      [] status = 201 -> "Created"
      [] status = 304 -> "Not Modified"
      [] status = 400 -> "Bad Request"
      [] status = 404 -> "Not Found"
      [] status = 429 -> "Too Many Requests"
      [] status = 500 -> "Internal Server Error"
      [] status = 501 -> "Not Implemented"
      [] status = 503 -> "Service Unavailable"
      [] OTHER -> ""

\* variant: the error field is preferred to the message field
parseErrorResponse_ErrorFirst(resp) ==
    LET body == resp.body
        message ==
            IF body.isJSON
            THEN IF Field(body.obj, "error", "") # ""
                 THEN body.obj.error
                 ELSE IF Field(body.obj, "message", "") # ""
                      THEN body.obj.message
                      ELSE StatusText(resp.status)
            ELSE IF body.len > 0 /\ body.len < MaxRawBodyLen
                 THEN body.raw
                 ELSE StatusText(resp.status)
    IN  [class |-> "APIError", StatusCode |-> resp.status, Message |-> message]

parseErrorResponse(resp) ==
    LET body == resp.body
        message ==
            IF body.isJSON
            THEN IF Field(body.obj, "message", "") # ""
                 THEN body.obj.message
                 ELSE IF Field(body.obj, "error", "") # ""
                      THEN body.obj.error
                      ELSE StatusText(resp.status)
            ELSE IF body.len > 0 /\ body.len < MaxRawBodyLen
                 THEN body.raw
                 ELSE StatusText(resp.status)
    IN  [class |-> "APIError", StatusCode |-> resp.status, Message |-> message]

\* the non-API errors the client returns
ClientError(what) == [class |-> what, StatusCode |-> 0, Message |-> what]

\* fmt.Errorf(what + ": %w", cause): an error that wraps its cause
Errorf(what, cause) ==
    [class |-> "wrapped", StatusCode |-> 0, Message |-> what, inner |-> cause]

RECURSIVE Unwraps(_, _)
\* errors.As / errors.Is: the first error of the chain of e, e included,
\* whose class is cls, or Null
Unwraps(e, cls) ==
    IF e.class = cls THEN Some(e)
    ELSE IF e.class = "wrapped" THEN Unwraps(e.inner, cls)
    ELSE Null

\* errors.As(err, &apiErr)
AsAPIError(err) == IF err = Null THEN Null ELSE Unwraps(err[1], "APIError")

IsNotFound(err) == AsAPIError(err) # Null /\ AsAPIError(err)[1].StatusCode = 404

IsUnauthorized(err) == AsAPIError(err) # Null /\ AsAPIError(err)[1].StatusCode = 401

IsConflict(err) == AsAPIError(err) # Null /\ AsAPIError(err)[1].StatusCode = 409

IsTooManyRequests(err) == AsAPIError(err) # Null /\ AsAPIError(err)[1].StatusCode = 429

IsBadRequest(err) == AsAPIError(err) # Null /\ AsAPIError(err)[1].StatusCode = 400

IsForbidden(err) == AsAPIError(err) # Null /\ AsAPIError(err)[1].StatusCode = 403

\* variant: no upper limit on the status
IsServerError_NoUpperLimit(err) ==
    AsAPIError(err) # Null /\ AsAPIError(err)[1].StatusCode >= 500

IsServerError(err) ==
    /\ AsAPIError(err) # Null
    /\ AsAPIError(err)[1].StatusCode >= 500
    /\ AsAPIError(err)[1].StatusCode < 600

\* the error c.httpClient.Do returned: context.Canceled under the wrappers
\* of net/http, or a transport error
DoError(out) ==
    IF Field(out, "cancelled", FALSE)
    THEN Errorf("Get", [class |-> "context.Canceled", StatusCode |-> 0,
                        Message |-> "context canceled"])
    ELSE ClientError("transport error")

\* variant: the Authorization header carries the bare token
doRequest_BareToken(method, path, body, out) ==
    LET req == [method |-> method, path |-> path, body |-> body,
                authorization |-> APIToken,
                userAgent |-> UserAgent,
                contentType |-> IF body # Null THEN "application/json" ELSE ""]
        x   == [req |-> req, out |-> out]
    IN  IF out.neterr
        THEN [xchg |-> x, resp |-> Null,
              err |-> Some(Errorf("failed to execute request", DoError(out)))]
        ELSE IF out.status < 200 \/ out.status >= 300
             THEN [xchg |-> x, err |-> Some(parseErrorResponse(out)), resp |-> Null]
             ELSE [xchg |-> x, err |-> Null, resp |-> Some(out)]

\* variant: the cause is formatted into the message, not wrapped
doRequest_DropsCause(method, path, body, out) ==
    LET req == [method |-> method, path |-> path, body |-> body,
                authorization |-> "Bearer " \o APIToken,
                userAgent |-> UserAgent,
                contentType |-> IF body # Null THEN "application/json" ELSE ""]
        x   == [req |-> req, out |-> out]
    IN  IF out.neterr
        THEN [xchg |-> x, resp |-> Null,
              err |-> Some(ClientError("failed to execute request"))]
        ELSE IF out.status < 200 \/ out.status >= 300
             THEN [xchg |-> x, err |-> Some(parseErrorResponse(out)), resp |-> Null]
             ELSE [xchg |-> x, err |-> Null, resp |-> Some(out)]

\* doRequest: one request, its outcome, and the response or the error
doRequest(method, path, body, out) ==
    LET req == [method |-> method, path |-> path, body |-> body,
                authorization |-> "Bearer " \o APIToken,
                userAgent |-> UserAgent,
                contentType |-> IF body # Null THEN "application/json" ELSE ""]
        x   == [req |-> req, out |-> out]
    IN  IF out.neterr
        THEN [xchg |-> x, resp |-> Null,
              err |-> Some(Errorf("failed to execute request", DoError(out)))]
        ELSE IF out.status < 200 \/ out.status >= 300
             THEN [xchg |-> x, err |-> Some(parseErrorResponse(out)), resp |-> Null]
             ELSE [xchg |-> x, err |-> Null, resp |-> Some(out)]

Get(path, out) == doRequest("GET", path, Null, out)

Post(path, body, out) == doRequest("POST", path, body, out)

Put(path, body, out) == doRequest("PUT", path, body, out)

Delete(path, out) == doRequest("DELETE", path, Null, out)

\* ParseResponse: the decoded object, or an unmarshal error
ParseResponse(resp) ==
    IF resp.body.isJSON
    THEN [err |-> Null, v |-> Some(resp.body.obj)]
    ELSE [err |-> Some(ClientError("failed to unmarshal response")), v |-> Null]

(***************************************************************************)
(* pkg/client: c.httpClient.  NewClient installs the StandardClient of a   *)
(* retryablehttp client with DefaultRetryPolicy and the given RetryMax,    *)
(* unless WithHTTPClient supplied a plain client.                          *)
(***************************************************************************)
DefaultRetryMax == 3

\* a transport error no retry can cure (certificate, redirect loop, scheme)
UnrecoverableFailure == [neterr |-> TRUE, unrecoverable |-> TRUE]

\* the error Do returns when the request is abandoned after n attempts
GiveUp(n) == [neterr |-> TRUE, gaveUp |-> TRUE, attempts |-> n]

\* DefaultTimeout, in seconds
DefaultTimeout == 30

\* http.Client.Timeout of zero: no timeout
NoTimeout == 0

\* c.httpClient as NewClient creates it, before the options: a plain
\* http.Client.  Timeout is the Timeout of c.httpClient itself,
\* AttemptTimeout that of the http.Client inside a retry wrapper, and
\* original tells that c.httpClient is still the client NewClient created
DefaultHTTPClient ==
    [retrying |-> FALSE, RetryMax |-> 0, Timeout |-> DefaultTimeout,
     AttemptTimeout |-> NoTimeout, original |-> TRUE]

\* WithHTTPClient: c.httpClient becomes the caller's plain client
WithHTTPClient(c) ==
    [retrying |-> FALSE, RetryMax |-> 0, Timeout |-> NoTimeout,
     AttemptTimeout |-> NoTimeout, original |-> FALSE]

\* WithTimeout: the Timeout of whatever c.httpClient is at that moment
WithTimeout(c, timeout) == [c EXCEPT !.Timeout = timeout]

\* WithRetryPolicy: the inner http.Client takes over the Timeout that
\* c.httpClient has at that moment; c.httpClient becomes the StandardClient
\* of the retry wrapper, an http.Client without a Timeout of its own
WithRetryPolicy(c, retryMax) ==
    [retrying |-> TRUE, RetryMax |-> retryMax, Timeout |-> NoTimeout,
     AttemptTimeout |-> c.Timeout, original |-> FALSE]

ApplyOption(c, option) ==
    CASE option.opt = "WithHTTPClient"  -> WithHTTPClient(c)
      [] option.opt = "WithTimeout"     -> WithTimeout(c, option.timeout)
      [] option.opt = "WithRetryPolicy" -> WithRetryPolicy(c, option.retryMax)

RECURSIVE ApplyOptions(_, _)
\* for _, opt := range opts { opt(client) }
ApplyOptions(c, opts) ==
    IF opts = <<>> THEN c ELSE ApplyOptions(ApplyOption(c, Head(opts)), Tail(opts))

\* NewClient: the options in their order, then the default retry policy
\* when c.httpClient is still the original client
NewClient(opts) ==
    LET c == ApplyOptions(DefaultHTTPClient, opts)
    IN  IF c.original THEN WithRetryPolicy(c, DefaultRetryMax) ELSE c

\* the Timeout of the http.Client that performs one HTTP round trip
AttemptTimeout(c) == IF c.retrying THEN c.AttemptTimeout ELSE c.Timeout

\* the Timeout that spans a whole c.httpClient.Do, the retries and the
\* waits between them included
CallTimeout(c) == c.Timeout

\* variant: every error status is retried, the client errors too
DefaultRetryPolicy_RetriesClientErrors(ans) ==
    IF ans.neterr
    THEN [shouldRetry |-> ~Field(ans, "unrecoverable", FALSE), checkErr |-> Null]
    ELSE IF ans.status >= 400
         THEN [shouldRetry |-> TRUE, checkErr |-> Null]
         ELSE [shouldRetry |-> FALSE, checkErr |-> Null]

\* retryClient.CheckRetry = retryablehttp.DefaultRetryPolicy: retry after a
\* recoverable transport error, a 429, and a 5xx other than 501 (which also
\* counts as an error of the attempt)
DefaultRetryPolicy(ans) ==
    IF ans.neterr
    THEN [shouldRetry |-> ~Field(ans, "unrecoverable", FALSE), checkErr |-> Null]
    ELSE IF ans.status = 429
         THEN [shouldRetry |-> TRUE, checkErr |-> Null]
         ELSE IF ans.status = 0 \/ (ans.status >= 500 /\ ans.status # 501)
              THEN [shouldRetry |-> TRUE, checkErr |-> Some("unexpected HTTP status")]
              ELSE [shouldRetry |-> FALSE, checkErr |-> Null]

\* variant: the first attempt is counted as a retry
remain_CountsFirstAttempt(c, i) == c.RetryMax - i - 1

\* retries left after the attempt with loop index i (retryClient.RetryMax)
remain(c, i) == c.RetryMax - i

\* variant: the loop index is kept in the client, shared by every call
Retries_SharedLoopIndex(c, i, ans) ==
    LET total[k \in 0..Len(cc.ops)] ==
            IF k = 0 THEN 0 ELSE total[k - 1] + cc.ops[k].i
    IN  /\ c.retrying
        /\ DefaultRetryPolicy(ans).shouldRetry
        /\ remain(c, IF cc.ops = <<>> THEN i ELSE total[Len(cc.ops)]) > 0

\* whether the retry loop goes round again after the answer of attempt i
Retries(c, i, ans) ==
    /\ c.retrying
    /\ DefaultRetryPolicy(ans).shouldRetry
    /\ remain(c, i) > 0

\* what c.httpClient.Do returns once the loop is left with the answer ans of
\* the attempt-th attempt: the response, the plain client's error, or the
\* wrapper's error (the response of an abandoned request is discarded)
HTTPClientDo(c, attempt, ans) ==
    IF ~c.retrying
    THEN ans
    ELSE LET cr == DefaultRetryPolicy(ans)
         IN  IF ~ans.neterr /\ cr.checkErr = Null /\ ~cr.shouldRetry
             THEN ans
             ELSE GiveUp(attempt)

(***************************************************************************)
(* pkg/client: environments                                                *)
(***************************************************************************)
\* the JSON values of a nullable number on the wire
JSONNull == [json |-> "null"]

JSONNumber(n) == [json |-> "number", v |-> n]

\* json.Unmarshal into a *float64: nil for an absent or null field
DecodeNullableNumber(obj, f) ==
    IF f \in DOMAIN obj /\ obj[f].json = "number" THEN Some(obj[f].v) ELSE Null

\* json.Unmarshal into the Environment struct: absent fields are zero values
DecodeEnvironment(obj) ==
    [Name                 |-> Field(obj, "name", ""),
     Type                 |-> Field(obj, "type", ""),
     Description          |-> Field(obj, "description", ""),
     LastModifiedAt       |-> Field(obj, "last_modified_at", 0),
     LastReportedAt       |-> DecodeNullableNumber(obj, "last_reported_at"),
     IncludeScaling       |-> Field(obj, "include_scaling", FALSE),
     IncludedEnvironments |-> Field(obj, "included_environments", <<>>)]

GetEnvironment(name, out) ==
    LET r == Get(<<"environments", Organization, name>>, out)
    IN  IF r.err # Null
        THEN [xchg |-> r.xchg, err |-> r.err, env |-> Null]
        ELSE LET p == ParseResponse(r.resp[1])
             IN  IF p.err # Null
                 THEN [xchg |-> r.xchg, err |-> p.err, env |-> Null]
                 ELSE [xchg |-> r.xchg, err |-> Null,
                       env |-> Some(DecodeEnvironment(p.v[1]))]

CreateEnvironment(req, out) ==
    LET body == [name                  |-> req.Name,
                 type                  |-> req.Type,
                 description           |-> req.Description,
                 include_scaling       |-> req.IncludeScaling,
                 included_environments |-> req.IncludedEnvironments,
                 policies              |-> req.Policies]
        r == Put(<<"environments", Organization>>, Some(body), out)
    IN  [xchg |-> r.xchg, err |-> r.err]

\* variant: a hard delete instead of the archive call
ArchiveEnvironment_HardDelete(name, out) ==
    LET r == doRequest("DELETE", <<"environments", Organization, name>>, Null, out)
    IN  [xchg |-> r.xchg, err |-> r.err]

ArchiveEnvironment(name, out) ==
    LET r == Put(<<"environments", Organization, name, "archive">>, Null, out)
    IN  [xchg |-> r.xchg, err |-> r.err]

(***************************************************************************)
(* internal/provider: diagnostics and handler results                      *)
(***************************************************************************)
\* resp.Diagnostics.AddError(summary, fmt.Sprintf(detail+" %q: %s", name, err))
AddError(summary, detail, name, err) ==
    [summary |-> summary, detail |-> detail, name |-> name, err |-> err[1]]

\* what a handler leaves behind: its requests, its diagnostics, the state of
\* the response, and whether it called resp.State.Set
Result(cs, ds, st, sv) == [calls |-> cs, diags |-> ds, state |-> st, saved |-> sv]

\* "Handle empty description as null"
DescriptionOrNull(d) == IF d = "" THEN Null ELSE Some(d)

(***************************************************************************)
(* internal/provider: kosli_environment                                    *)
(***************************************************************************)
\* createReq of Create
environmentCreateRequest(data) ==
    [Name                 |-> data.name,
     Type                 |-> data.type,
     Description          |-> ValueString(data.description),
     IncludeScaling       |-> data.include_scaling,
     IncludedEnvironments |-> <<>>,
     Policies             |-> <<>>]

\* variant: Update leaves include_scaling out of the payload
environmentUpdateRequest_DropsScaling(data) ==
    [Name                 |-> data.name,
     Type                 |-> data.type,
     Description          |-> ValueString(data.description),
     IncludeScaling       |-> FALSE,
     IncludedEnvironments |-> <<>>,
     Policies             |-> <<>>]

\* createReq of Update
environmentUpdateRequest(data) ==
    [Name                 |-> data.name,
     Type                 |-> data.type,
     Description          |-> ValueString(data.description),
     IncludeScaling       |-> data.include_scaling,
     IncludedEnvironments |-> <<>>,
     Policies             |-> <<>>]

\* variant: the state is saved from the plan, without the follow-up GET
environmentResourceCreate_NoFollowUpRead(plan, wOut, gOut) ==
    LET w == CreateEnvironment(environmentCreateRequest(plan), wOut)
    IN  IF w.err # Null
        THEN Result(<<w.xchg>>,
                    <<AddError("Error Creating Environment",
                               "Could not create environment", plan.name, w.err)>>,
                    Null, FALSE)
        ELSE Result(<<w.xchg>>, <<>>, Some(plan), TRUE)

\* variant: a name archived just before is refused without asking the API
environmentResourceCreate_RefusesArchivedName(plan, wOut, gOut) ==
    IF op.name \in {"Delete", "Replace"} /\ op.prior # Null
       /\ op.prior[1].name = plan.name
    THEN Result(<<>>,
                <<AddError("Error Creating Environment", "Could not create environment",
                           plan.name, Some(ClientError("name is archived")))>>,
                Null, FALSE)
    ELSE
    LET w == CreateEnvironment(environmentCreateRequest(plan), wOut)
    IN  IF w.err # Null
        THEN Result(<<w.xchg>>,
                    <<AddError("Error Creating Environment",
                               "Could not create environment", plan.name, w.err)>>,
                    Null, FALSE)
        ELSE LET g == GetEnvironment(plan.name, gOut)
             IN  IF g.err # Null
                 THEN Result(<<w.xchg, g.xchg>>,
                             <<AddError("Error Reading Environment After Creation",
                                        "Could not read environment after creation",
                                        plan.name, g.err)>>,
                             Null, FALSE)
                 ELSE Result(<<w.xchg, g.xchg>>, <<>>,
                             Some([plan EXCEPT
                                     !.description = DescriptionOrNull(g.env[1].Description),
                                     !.include_scaling = g.env[1].IncludeScaling]),
                             TRUE)

environmentResourceCreate(plan, wOut, gOut) ==
    LET w == CreateEnvironment(environmentCreateRequest(plan), wOut)
    IN  IF w.err # Null
        THEN Result(<<w.xchg>>,
                    <<AddError("Error Creating Environment",
                               "Could not create environment", plan.name, w.err)>>,
                    Null, FALSE)
        ELSE LET g == GetEnvironment(plan.name, gOut)
             IN  IF g.err # Null
                 THEN Result(<<w.xchg, g.xchg>>,
                             <<AddError("Error Reading Environment After Creation",
                                        "Could not read environment after creation",
                                        plan.name, g.err)>>,
                             Null, FALSE)
                 ELSE Result(<<w.xchg, g.xchg>>, <<>>,
                             Some([plan EXCEPT
                                     !.description = DescriptionOrNull(g.env[1].Description),
                                     !.include_scaling = g.env[1].IncludeScaling]),
                             TRUE)

environmentResourceRead(prior, gOut) ==
    LET g == GetEnvironment(prior.name, gOut)
    IN  IF g.err # Null
        THEN Result(<<g.xchg>>,
                    <<AddError("Error Reading Environment",
                               "Could not read environment", prior.name, g.err)>>,
                    Some(prior), FALSE)
        ELSE Result(<<g.xchg>>, <<>>,
                    Some([prior EXCEPT
                            !.description = DescriptionOrNull(g.env[1].Description),
                            !.include_scaling = g.env[1].IncludeScaling]),
                    TRUE)

\* variant: the return after the write error is missing
environmentResourceUpdate_NoReturn(prior, plan, wOut, gOut) ==
    LET w == CreateEnvironment(environmentUpdateRequest(plan), wOut)
        g == GetEnvironment(plan.name, gOut)
        e == IF w.err # Null
             THEN <<AddError("Error Updating Environment",
                             "Could not update environment", plan.name, w.err)>>
             ELSE <<>>
    IN  IF g.err # Null
        THEN Result(<<w.xchg, g.xchg>>,
                    e \o <<AddError("Error Reading Environment After Update",
                                    "Could not read environment after update",
                                    plan.name, g.err)>>,
                    Some(prior), FALSE)
        ELSE Result(<<w.xchg, g.xchg>>, e,
                    Some([plan EXCEPT
                            !.description = DescriptionOrNull(g.env[1].Description),
                            !.include_scaling = g.env[1].IncludeScaling]),
                    TRUE)

environmentResourceUpdate(prior, plan, wOut, gOut) ==
    LET w == CreateEnvironment(environmentUpdateRequest(plan), wOut)
    IN  IF w.err # Null
        THEN Result(<<w.xchg>>,
                    <<AddError("Error Updating Environment",
                               "Could not update environment", plan.name, w.err)>>,
                    Some(prior), FALSE)
        ELSE LET g == GetEnvironment(plan.name, gOut)
             IN  IF g.err # Null
                 THEN Result(<<w.xchg, g.xchg>>,
                             <<AddError("Error Reading Environment After Update",
                                        "Could not read environment after update",
                                        plan.name, g.err)>>,
                             Some(prior), FALSE)
                 ELSE Result(<<w.xchg, g.xchg>>, <<>>,
                             Some([plan EXCEPT
                                     !.description = DescriptionOrNull(g.env[1].Description),
                                     !.include_scaling = g.env[1].IncludeScaling]),
                             TRUE)

\* on success the framework removes the state; on error it keeps it
environmentResourceDelete(prior, aOut) ==
    LET a == ArchiveEnvironment(prior.name, aOut)
    IN  IF a.err # Null
        THEN Result(<<a.xchg>>,
                    <<AddError("Error Deleting Environment",
                               "Could not archive environment", prior.name, a.err)>>,
                    Some(prior), FALSE)
        ELSE Result(<<a.xchg>>, <<>>, Null, FALSE)

\* variant: a nil LastReportedAt is stored as the number 0
environmentDataSourceRead_ZeroForNil(config, gOut) ==
    LET g == GetEnvironment(ValueString(config.name), gOut)
    IN  IF g.err # Null
        THEN Result(<<g.xchg>>,
                    <<AddError("Error Reading Environment", "Could not read environment",
                               ValueString(config.name), g.err)>>,
                    Null, FALSE)
        ELSE LET env == g.env[1]
             IN  Result(<<g.xchg>>, <<>>,
                        Some([name             |-> Some(env.Name),
                              type             |-> Some(env.Type),
                              description      |-> DescriptionOrNull(env.Description),
                              include_scaling  |-> Some(env.IncludeScaling),
                              last_modified_at |-> Some(env.LastModifiedAt),
                              last_reported_at |->
                                  IF env.LastReportedAt = Null
                                  THEN Some(0)
                                  ELSE Some(env.LastReportedAt[1])]),
                        TRUE)

\* Read of the data source kosli_environment: one GET, mapped to the model
environmentDataSourceRead(config, gOut) ==
    LET g == GetEnvironment(ValueString(config.name), gOut)
    IN  IF g.err # Null
        THEN Result(<<g.xchg>>,
                    <<AddError("Error Reading Environment", "Could not read environment",
                               ValueString(config.name), g.err)>>,
                    Null, FALSE)
        ELSE LET env == g.env[1]
             IN  Result(<<g.xchg>>, <<>>,
                        Some([name             |-> Some(env.Name),
                              type             |-> Some(env.Type),
                              description      |-> DescriptionOrNull(env.Description),
                              include_scaling  |-> Some(env.IncludeScaling),
                              last_modified_at |-> Some(env.LastModifiedAt),
                              last_reported_at |->
                                  IF env.LastReportedAt = Null
                                  THEN Null
                                  ELSE Some(env.LastReportedAt[1])]),
                        TRUE)

(***************************************************************************)
(* internal/provider: kosli_logical_environment                            *)
(***************************************************************************)
\* createReq of Create
logicalEnvironmentCreateRequest(data) ==
    [Name                 |-> data.name,
     Type                 |-> "logical",
     Description          |-> ValueString(data.description),
     IncludeScaling       |-> FALSE,
     IncludedEnvironments |-> data.included_environments,
     Policies             |-> <<>>]

\* createReq of Update
logicalEnvironmentUpdateRequest(data) ==
    [Name                 |-> data.name,
     Type                 |-> "logical",
     Description          |-> ValueString(data.description),
     IncludeScaling       |-> FALSE,
     IncludedEnvironments |-> data.included_environments,
     Policies             |-> <<>>]

\* variant: the list is read from the GET response instead of being preserved
logicalEnvironmentState_FromResponse(data, env, preservedIncludedEnvs) ==
    [name                  |-> data.name,
     type                  |-> env.Type,
     description           |-> DescriptionOrNull(env.Description),
     included_environments |-> env.IncludedEnvironments]

\* "Map API response to Terraform state": type and description come from
\* the GET response, included_environments is the preserved list
logicalEnvironmentState(data, env, preservedIncludedEnvs) ==
    [name                  |-> data.name,
     type                  |-> env.Type,
     description           |-> DescriptionOrNull(env.Description),
     included_environments |-> preservedIncludedEnvs]

logicalEnvironmentResourceCreate(plan, wOut, gOut) ==
    LET w == CreateEnvironment(logicalEnvironmentCreateRequest(plan), wOut)
    IN  IF w.err # Null
        THEN Result(<<w.xchg>>,
                    <<AddError("Error Creating Logical Environment",
                               "Could not create logical environment", plan.name, w.err)>>,
                    Null, FALSE)
        ELSE LET preservedIncludedEnvs == plan.included_environments
                 g == GetEnvironment(plan.name, gOut)
             IN  IF g.err # Null
                 THEN Result(<<w.xchg, g.xchg>>,
                             <<AddError("Error Reading Logical Environment After Creation",
                                        "Could not read logical environment after creation",
                                        plan.name, g.err)>>,
                             Null, FALSE)
                 ELSE Result(<<w.xchg, g.xchg>>, <<>>,
                             Some(logicalEnvironmentState(plan, g.env[1], preservedIncludedEnvs)),
                             TRUE)

logicalEnvironmentResourceRead(prior, gOut) ==
    LET preservedIncludedEnvs == prior.included_environments
        g == GetEnvironment(prior.name, gOut)
    IN  IF g.err # Null
        THEN Result(<<g.xchg>>,
                    <<AddError("Error Reading Logical Environment",
                               "Could not read logical environment", prior.name, g.err)>>,
                    Some(prior), FALSE)
        ELSE Result(<<g.xchg>>, <<>>,
                    Some(logicalEnvironmentState(prior, g.env[1], preservedIncludedEnvs)),
                    TRUE)

logicalEnvironmentResourceUpdate(prior, plan, wOut, gOut) ==
    LET w == CreateEnvironment(logicalEnvironmentUpdateRequest(plan), wOut)
    IN  IF w.err # Null
        THEN Result(<<w.xchg>>,
                    <<AddError("Error Updating Logical Environment",
                               "Could not update logical environment", plan.name, w.err)>>,
                    Some(prior), FALSE)
        ELSE LET preservedIncludedEnvs == plan.included_environments
                 g == GetEnvironment(plan.name, gOut)
             IN  IF g.err # Null
                 THEN Result(<<w.xchg, g.xchg>>,
                             <<AddError("Error Reading Logical Environment After Update",
                                        "Could not read logical environment after update",
                                        plan.name, g.err)>>,
                             Some(prior), FALSE)
                 ELSE Result(<<w.xchg, g.xchg>>, <<>>,
                             Some(logicalEnvironmentState(plan, g.env[1], preservedIncludedEnvs)),
                             TRUE)

logicalEnvironmentResourceDelete(prior, aOut) ==
    LET a == ArchiveEnvironment(prior.name, aOut)
    IN  IF a.err # Null
        THEN Result(<<a.xchg>>,
                    <<AddError("Error Deleting Logical Environment",
                               "Could not archive logical environment", prior.name, a.err)>>,
                    Some(prior), FALSE)
        ELSE Result(<<a.xchg>>, <<>>, Null, FALSE)

(***************************************************************************)
(* pkg/client: custom attestation types                                    *)
(***************************************************************************)
toAPIFormat(req) ==
    [name        |-> req.Name,
     description |-> req.Description,
     evaluator   |-> [content_type |-> "jq", rules |-> req.JqRules]]

\* the data_json field, and the type_schema file part when a schema is given
createMultipartRequest(data, schema) ==
    [data_json   |-> data,
     type_schema |-> IF schema # "" THEN Some(schema) ELSE Null]

\* json.Unmarshal into CustomAttestationType; Schema and JqRules are json:"-"
DecodeCustomAttestationType(obj) ==
    [Name        |-> Field(obj, "name", ""),
     Description |-> Field(obj, "description", ""),
     Schema      |-> "",
     JqRules     |-> <<>>,
     Versions    |-> Field(obj, "versions", <<>>),
     Archived    |-> Field(obj, "archived", FALSE)]

fromAPIFormat(at) ==
    IF Len(at.Versions) > 0
    THEN LET latestVersion == at.Versions[1]
         IN  [at EXCEPT
                !.Schema  = latestVersion.type_schema,
                !.JqRules = IF latestVersion.evaluator # Null
                               /\ latestVersion.evaluator[1].content_type = "jq"
                            THEN latestVersion.evaluator[1].rules
                            ELSE @]
    ELSE at

\* the multipart POST goes straight to c.httpClient.Do, not through doRequest
CreateCustomAttestationType(req, out) ==
    LET data    == toAPIFormat(req)
        body    == createMultipartRequest(data, req.Schema)
        httpReq == [method |-> "POST",
                    path |-> <<"custom-attestation-types", Organization>>,
                    body |-> Some(body),
                    authorization |-> "Bearer " \o APIToken,
                    userAgent |-> UserAgent,
                    contentType |-> "multipart/form-data"]
        x       == [req |-> httpReq, out |-> out]
    IN  IF out.neterr
        THEN [xchg |-> x,
              err |-> Some(Errorf("failed to execute request", DoError(out)))]
        ELSE IF out.status >= 400
             THEN [xchg |-> x, err |-> Some(parseErrorResponse(out))]
             ELSE IF out.status # 201
                  THEN [xchg |-> x, err |-> Some(ClientError("unexpected status code"))]
                  ELSE [xchg |-> x, err |-> Null]

\* the handlers pass opts = nil: no version query parameter
GetCustomAttestationType(name, out) ==
    LET r == Get(<<"custom-attestation-types", Organization, name>>, out)
    IN  IF r.err # Null
        THEN [xchg |-> r.xchg, err |-> r.err, at |-> Null]
        ELSE LET p == ParseResponse(r.resp[1])
             IN  IF p.err # Null
                 THEN [xchg |-> r.xchg, err |-> p.err, at |-> Null]
                 ELSE [xchg |-> r.xchg, err |-> Null,
                       at |-> Some(fromAPIFormat(DecodeCustomAttestationType(p.v[1])))]

ArchiveCustomAttestationType(name, out) ==
    LET r == Put(<<"custom-attestation-types", Organization, name, "archive">>, Null, out)
    IN  [xchg |-> r.xchg, err |-> r.err]

(***************************************************************************)
(* internal/provider: kosli_custom_attestation_type                        *)
(***************************************************************************)
\* createReq of Create
customAttestationTypeCreateRequest(data) ==
    [Name        |-> data.name,
     Description |-> ValueString(data.description),
     Schema      |-> data.schema,
     JqRules     |-> data.jq_rules]

\* createReq of Update
customAttestationTypeUpdateRequest(data) ==
    [Name        |-> data.name,
     Description |-> ValueString(data.description),
     Schema      |-> data.schema,
     JqRules     |-> data.jq_rules]

\* "Map API response to Terraform state"
customAttestationTypeState(data, attestationType) ==
    [name        |-> data.name,
     description |-> Some(attestationType.Description),
     schema      |-> attestationType.Schema,
     jq_rules    |-> attestationType.JqRules]

\* variant: a failed follow-up GET is swallowed and the plan is saved
customAttestationTypeResourceCreate_SwallowsReadFailure(plan, wOut, gOut) ==
    LET w == CreateCustomAttestationType(customAttestationTypeCreateRequest(plan), wOut)
    IN  IF w.err # Null
        THEN Result(<<w.xchg>>,
                    <<AddError("Error Creating Custom Attestation Type",
                               "Could not create custom attestation type", plan.name, w.err)>>,
                    Null, FALSE)
        ELSE LET g == GetCustomAttestationType(plan.name, gOut)
             IN  IF g.err # Null
                 THEN Result(<<w.xchg, g.xchg>>, <<>>,
                             Some([plan EXCEPT
                                     !.description = Some(ValueString(plan.description))]),
                             TRUE)
                 ELSE Result(<<w.xchg, g.xchg>>, <<>>,
                             Some(customAttestationTypeState(plan, g.at[1])), TRUE)

customAttestationTypeResourceCreate(plan, wOut, gOut) ==
    LET w == CreateCustomAttestationType(customAttestationTypeCreateRequest(plan), wOut)
    IN  IF w.err # Null
        THEN Result(<<w.xchg>>,
                    <<AddError("Error Creating Custom Attestation Type",
                               "Could not create custom attestation type", plan.name, w.err)>>,
                    Null, FALSE)
        ELSE LET g == GetCustomAttestationType(plan.name, gOut)
             IN  IF g.err # Null
                 THEN Result(<<w.xchg, g.xchg>>,
                             <<AddError("Error Reading Custom Attestation Type After Creation",
                                        "Could not read custom attestation type after creation",
                                        plan.name, g.err)>>,
                             Null, FALSE)
                 ELSE Result(<<w.xchg, g.xchg>>, <<>>,
                             Some(customAttestationTypeState(plan, g.at[1])), TRUE)

customAttestationTypeResourceRead(prior, gOut) ==
    LET g == GetCustomAttestationType(prior.name, gOut)
    IN  IF g.err # Null
        THEN Result(<<g.xchg>>,
                    <<AddError("Error Reading Custom Attestation Type",
                               "Could not read custom attestation type", prior.name, g.err)>>,
                    Some(prior), FALSE)
        ELSE Result(<<g.xchg>>, <<>>,
                    Some(customAttestationTypeState(prior, g.at[1])), TRUE)

customAttestationTypeResourceUpdate(prior, plan, wOut, gOut) ==
    LET w == CreateCustomAttestationType(customAttestationTypeUpdateRequest(plan), wOut)
    IN  IF w.err # Null
        THEN Result(<<w.xchg>>,
                    <<AddError("Error Updating Custom Attestation Type",
                               "Could not update custom attestation type", plan.name, w.err)>>,
                    Some(prior), FALSE)
        ELSE LET g == GetCustomAttestationType(plan.name, gOut)
             IN  IF g.err # Null
                 THEN Result(<<w.xchg, g.xchg>>,
                             <<AddError("Error Reading Custom Attestation Type After Update",
                                        "Could not read custom attestation type after update",
                                        plan.name, g.err)>>,
                             Some(prior), FALSE)
                 ELSE Result(<<w.xchg, g.xchg>>, <<>>,
                             Some(customAttestationTypeState(plan, g.at[1])), TRUE)

customAttestationTypeResourceDelete(prior, aOut) ==
    LET a == ArchiveCustomAttestationType(prior.name, aOut)
    IN  IF a.err # Null
        THEN Result(<<a.xchg>>,
                    <<AddError("Error Deleting Custom Attestation Type",
                               "Could not archive custom attestation type", prior.name, a.err)>>,
                    Some(prior), FALSE)
        ELSE Result(<<a.xchg>>, <<>>, Null, FALSE)

(***************************************************************************)
(* Configurations Terraform may hand to the handlers                       *)
(***************************************************************************)
Kinds == {"custom_attestation_type", "environment", "logical_environment"}

\* the data source types the repository implements
DataSourceKinds == {"environment", "logical_environment", "custom_attestation_type"}

\* KosliProvider.Resources(): the resource types a provider instance serves
Resources == {"custom_attestation_type", "environment"}

\* KosliProvider.DataSources(): the data source types it serves
DataSources == {"custom_attestation_type", "environment"}

AllNames == <<"res-a", "res-b", "res-c", "res-d">>

Names == {AllNames[i] : i \in 1..MaxNames}

\* two of the physical types the schema documents
EnvironmentTypes == {"K8S", "docker"}

PhysicalNames == {"phys-1", "phys-2"}

Rules == {".x > 0", ".y == 1"}

PlanDescriptions == {Null, Some("d1")}

\* description and include_scaling are both left out or both set
EnvironmentPlans ==
    {[name |-> n, type |-> t, description |-> c[1], include_scaling |-> c[2]] :
        n \in Names, t \in EnvironmentTypes,
        c \in {<<Null, FALSE>>, <<Some("d1"), TRUE>>}}

LogicalEnvironmentPlans ==
    [name : Names, description : PlanDescriptions,
     included_environments : SeqUpTo(PhysicalNames, MaxListLen)]

\* the description is left out with the first schema and set with the second
CustomAttestationTypePlans ==
    {[name |-> n, description |-> c[1], schema |-> c[2], jq_rules |-> r] :
        n \in Names, r \in SeqUpTo(Rules, MaxListLen),
        c \in {<<Null, "{\"type\":\"object\"}">>, <<Some("d1"), "{\"type\":\"array\"}">>}}

\* what a configuration block may hold: an attribute is set or left out
\* (null); the name is set in all of them
CustomAttestationTypeConfigs ==
    [name : {Some(n) : n \in Names}, description : PlanDescriptions,
     schema : {Null, Some("{\"type\":\"object\"}")},
     jq_rules : {Null} \cup {Some(r) : r \in SeqUpTo(Rules, MaxListLen)}]

\* Required / Optional of the attributes in Schema()
customAttestationTypeSchema ==
    [name |-> "Required", description |-> "Optional",
     schema |-> "Required", jq_rules |-> "Required"]

SchemaAttributes == <<"name", "description", "schema", "jq_rules">>

\* Terraform rejects a configuration that leaves a Required attribute out,
\* before any handler runs: one diagnostic per missing attribute
ValidateConfig(sch, config) ==
    LET Missing(a) == sch[a] = "Required" /\ config[a] = Null
        m == SelectSeq(SchemaAttributes, Missing)
    IN  [i \in 1..Len(m) |->
            [summary |-> "Missing required argument", attribute |-> m[i]]]

\* variant: the type attribute of the environment lacks RequiresReplace
RequiresReplaceAttributes_NameOnly(k) == {"name"}

\* the attributes whose schema carries stringplanmodifier.RequiresReplace()
RequiresReplaceAttributes(k) ==
    CASE k = "custom_attestation_type" -> {"name"}
      [] k = "environment"             -> {"name", "type"}
      [] k = "logical_environment"     -> {"name"}

\* the plan modifier fires when the planned value differs from the state's
RequiresReplace(k, prior, plan) ==
    \E a \in RequiresReplaceAttributes(k) : plan[a] # prior[a]

(***************************************************************************)
(* Outcomes of the HTTP layer                                              *)
(***************************************************************************)
\* the acknowledgement of a write is the text OK, or an object the handlers
\* must not take for the created resource
WriteOutcomes ==
    {TransportFailure,
     Response(200, RawBody("OK", 2)),
     Response(201, JSONBody([name |-> "ack", type |-> "ack", description |-> "ack",
                             include_scaling |-> TRUE,
                             included_environments |-> <<"ack">>,
                             versions |-> <<>>])),
     Response(404, JSONBody([message |-> "boom"]))}

ArchiveOutcomes ==
    {Response(200, RawBody("OK", 2)),
     Response(404, JSONBody([message |-> "boom"])),
     Response(500, RawBody("", 0))}

\* GET /environments/{org}/{name}: included_environments is absent, empty
\* or a list; include_scaling varies for the physical types
EnvironmentObjects ==
    {[type |-> "logical", description |-> ""],
     [type |-> "logical", description |-> "d2", included_environments |-> <<>>],
     [type |-> "logical", description |-> "d2",
      included_environments |-> <<"phys-2", "phys-1">>],
     [type |-> "K8S", description |-> "", include_scaling |-> TRUE]}

WireVersion(n, schema, evaluator) ==
    [version |-> n, type_schema |-> schema, evaluator |-> evaluator]

WireVersionLists ==
    LET v2 == WireVersion(2, "{\"type\":\"object\"}",
                          Some([content_type |-> "jq", rules |-> <<".x > 0">>]))
        v1 == WireVersion(1, "{\"type\":\"array\"}",
                          Some([content_type |-> "jq", rules |-> <<".y == 1">>]))
        v3 == WireVersion(3, "{\"type\":\"object\"}",
                          Some([content_type |-> "rego", rules |-> <<"allow">>]))
        v4 == WireVersion(4, "", Null)
    IN  {<<"", <<>>>>, <<"d2", <<v2, v1>>>>, <<"", <<v1, v2>>>>,
         <<"d2", <<v3, v2>>>>, <<"", <<v4>>>>}

\* GET /custom-attestation-types/{org}/{name}
CustomAttestationTypeObjects ==
    {[name |-> "wire", description |-> c[1], versions |-> c[2], archived |-> FALSE] :
        c \in WireVersionLists}

GetErrorOutcomes ==
    {Response(404, JSONBody([message |-> "boom"])),
     Response(500, RawBody("", 0)), Response(200, RawBody("<html>", 6))}

GetOutcomes(k) ==
    GetErrorOutcomes
    \cup {Response(200, JSONBody(o)) :
            o \in IF k = "custom_attestation_type"
                  THEN CustomAttestationTypeObjects
                  ELSE EnvironmentObjects}

(***************************************************************************)
(* The state machine                                                       *)
(***************************************************************************)
NoOp == [name |-> "none", prior |-> Null, plan |-> Null]

\* no transformer has been applied
NoCall == [fn |-> "none"]

\* no client operation is in flight
Idle == [pc |-> "idle"]

\* no client is shared
NoClient == [ops |-> <<>>]

Init ==
    /\ kind \in Kinds
    /\ state = Null
    /\ op = NoOp
    /\ calls = <<>>
    /\ diags = <<>>
    /\ saved = FALSE
    /\ lastPlan = Null
    /\ xf = NoCall
    /\ rt = Idle
    /\ cc = NoClient

\* the attributes of the prior state that identify the resource
Identity(st) == Some([name |-> st.name, type |-> Field(st, "type", "")])

\* the framework takes over what the handler left in its response; op is
\* the invocation (Replace is the Delete that Terraform runs, before the
\* Create, when the plan requires replacement; prior is the resource the
\* invocation found, for a Create the one archived under the same name just
\* before), lastPlan the plan of the latest Create or Update that saved a
\* state
Finish(name, prior, plan, r) ==
    /\ state' = r.state
    /\ calls' = r.calls
    /\ diags' = r.diags
    /\ saved' = r.saved
    /\ op' = [name |-> name, prior |-> prior, plan |-> plan]
    /\ lastPlan' = IF r.saved /\ plan # Null THEN plan
                   ELSE IF r.state = Null THEN Null ELSE lastPlan
    /\ UNCHANGED <<kind, xf, rt, cc>>

\* the resource that the Delete run just before has archived, when the plan
\* of the Create keeps its name: the Create re-creates an archived name
Recreated(plan) ==
    IF op.name \in {"Delete", "Replace"} /\ op.prior # Null /\ op.prior[1].name = plan.name
    THEN op.prior
    ELSE Null

\* an outcome is drawn only for a request the handler issues: the GET is
\* not issued after a failed write
GetChoices(k, writeErr) ==
    IF writeErr # Null THEN {Response(500, RawBody("", 0))} ELSE GetOutcomes(k)

EnvironmentCreate ==
    /\ kind = "environment" /\ state = Null
    /\ \E plan \in EnvironmentPlans, wOut \in WriteOutcomes :
         \E gOut \in GetChoices(kind, CreateEnvironment(environmentCreateRequest(plan), wOut).err) :
            Finish("Create", Recreated(plan), Some(plan), environmentResourceCreate(plan, wOut, gOut))

EnvironmentRead ==
    /\ kind = "environment" /\ state # Null
    /\ \E gOut \in GetOutcomes(kind) :
         Finish("Read", Identity(state[1]), Null, environmentResourceRead(state[1], gOut))

EnvironmentUpdate ==
    /\ kind = "environment" /\ state # Null
    /\ \E plan \in EnvironmentPlans, wOut \in WriteOutcomes :
         /\ ~RequiresReplace(kind, state[1], plan)
         /\ \E gOut \in GetChoices(kind, CreateEnvironment(environmentUpdateRequest(plan), wOut).err) :
               Finish("Update", Identity(state[1]), Some(plan),
                      environmentResourceUpdate(state[1], plan, wOut, gOut))

EnvironmentDelete ==
    /\ kind = "environment" /\ state # Null
    /\ \E aOut \in ArchiveOutcomes :
         Finish("Delete", Identity(state[1]), Null, environmentResourceDelete(state[1], aOut))

EnvironmentReplace ==
    /\ kind = "environment" /\ state # Null
    /\ \E plan \in EnvironmentPlans, aOut \in ArchiveOutcomes :
         /\ RequiresReplace(kind, state[1], plan)
         /\ Finish("Replace", Identity(state[1]), Some(plan),
                   environmentResourceDelete(state[1], aOut))

LogicalEnvironmentCreate ==
    /\ kind = "logical_environment" /\ state = Null
    /\ \E plan \in LogicalEnvironmentPlans, wOut \in WriteOutcomes :
         \E gOut \in GetChoices(kind, CreateEnvironment(logicalEnvironmentCreateRequest(plan), wOut).err) :
            Finish("Create", Recreated(plan), Some(plan), logicalEnvironmentResourceCreate(plan, wOut, gOut))

LogicalEnvironmentRead ==
    /\ kind = "logical_environment" /\ state # Null
    /\ \E gOut \in GetOutcomes(kind) :
         Finish("Read", Identity(state[1]), Null, logicalEnvironmentResourceRead(state[1], gOut))

LogicalEnvironmentUpdate ==
    /\ kind = "logical_environment" /\ state # Null
    /\ \E plan \in LogicalEnvironmentPlans, wOut \in WriteOutcomes :
         /\ ~RequiresReplace(kind, state[1], plan)
         /\ \E gOut \in GetChoices(kind, CreateEnvironment(logicalEnvironmentUpdateRequest(plan), wOut).err) :
               Finish("Update", Identity(state[1]), Some(plan),
                      logicalEnvironmentResourceUpdate(state[1], plan, wOut, gOut))

LogicalEnvironmentDelete ==
    /\ kind = "logical_environment" /\ state # Null
    /\ \E aOut \in ArchiveOutcomes :
         Finish("Delete", Identity(state[1]), Null, logicalEnvironmentResourceDelete(state[1], aOut))

LogicalEnvironmentReplace ==
    /\ kind = "logical_environment" /\ state # Null
    /\ \E plan \in LogicalEnvironmentPlans, aOut \in ArchiveOutcomes :
         /\ RequiresReplace(kind, state[1], plan)
         /\ Finish("Replace", Identity(state[1]), Some(plan),
                   logicalEnvironmentResourceDelete(state[1], aOut))

CustomAttestationTypeCreate ==
    /\ kind = "custom_attestation_type" /\ state = Null
    /\ \E plan \in CustomAttestationTypePlans, wOut \in WriteOutcomes :
         \E gOut \in GetChoices(kind, CreateCustomAttestationType(customAttestationTypeCreateRequest(plan), wOut).err) :
            Finish("Create", Recreated(plan), Some(plan), customAttestationTypeResourceCreate(plan, wOut, gOut))

CustomAttestationTypeRead ==
    /\ kind = "custom_attestation_type" /\ state # Null
    /\ \E gOut \in GetOutcomes(kind) :
         Finish("Read", Identity(state[1]), Null, customAttestationTypeResourceRead(state[1], gOut))

CustomAttestationTypeUpdate ==
    /\ kind = "custom_attestation_type" /\ state # Null
    /\ \E plan \in CustomAttestationTypePlans, wOut \in WriteOutcomes :
         /\ ~RequiresReplace(kind, state[1], plan)
         /\ \E gOut \in GetChoices(kind, CreateCustomAttestationType(customAttestationTypeUpdateRequest(plan), wOut).err) :
               Finish("Update", Identity(state[1]), Some(plan),
                      customAttestationTypeResourceUpdate(state[1], plan, wOut, gOut))

CustomAttestationTypeDelete ==
    /\ kind = "custom_attestation_type" /\ state # Null
    /\ \E aOut \in ArchiveOutcomes :
         Finish("Delete", Identity(state[1]), Null, customAttestationTypeResourceDelete(state[1], aOut))

\* the configuration of a resource to be created is validated against the
\* schema; the handlers are not reached when it is rejected
CustomAttestationTypeValidate ==
    /\ kind = "custom_attestation_type" /\ state = Null
    /\ \E config \in CustomAttestationTypeConfigs :
         Finish("Validate", Null, Some(config),
                Result(<<>>, ValidateConfig(customAttestationTypeSchema, config), Null, FALSE))

CustomAttestationTypeReplace ==
    /\ kind = "custom_attestation_type" /\ state # Null
    /\ \E plan \in CustomAttestationTypePlans, aOut \in ArchiveOutcomes :
         /\ RequiresReplace(kind, state[1], plan)
         /\ Finish("Replace", Identity(state[1]), Some(plan),
                   customAttestationTypeResourceDelete(state[1], aOut))

Next ==
    \/ EnvironmentCreate
    \/ EnvironmentRead
    \/ EnvironmentUpdate
    \/ EnvironmentDelete
    \/ EnvironmentReplace
    \/ LogicalEnvironmentCreate
    \/ LogicalEnvironmentRead
    \/ LogicalEnvironmentUpdate
    \/ LogicalEnvironmentDelete
    \/ LogicalEnvironmentReplace
    \/ CustomAttestationTypeCreate
    \/ CustomAttestationTypeRead
    \/ CustomAttestationTypeUpdate
    \/ CustomAttestationTypeDelete
    \/ CustomAttestationTypeReplace
    \/ CustomAttestationTypeValidate

Spec == Init /\ [][Next]_vars

(***************************************************************************)
(* Functions of pkg/client and the data source applied to bounded inputs   *)
(***************************************************************************)
\* a schema text is a sequence of lexical tokens: punctuation, white space
\* and string literals with their quote character
Punct(c) == [t |-> "punct", q |-> "", v |-> c]

Space == [t |-> "space", q |-> "", v |-> " "]

Literal(q, v) == [t |-> "string", q |-> q, v |-> v]

DoubleQuote == "\""

SingleQuote == "'"

\* type_schema as the API may return it: compact JSON, JSON with white
\* space, Python dict notation, or nothing
SchemaTexts ==
    {<<Punct("{"), Literal(DoubleQuote, "type"), Punct(":"),
       Literal(DoubleQuote, "object"), Punct("}")>>,
     <<Punct("{"), Literal(DoubleQuote, "type"), Punct(":"), Space,
       Literal(DoubleQuote, "array"), Punct("}")>>,
     <<Punct("{"), Literal(SingleQuote, "type"), Punct(":"), Space,
       Literal(SingleQuote, "number"), Punct("}")>>,
     <<>>}

\* the evaluator of a version: absent, jq rules, or another content type
WireEvaluators ==
    {Null,
     Some([content_type |-> "jq", rules |-> <<".x > 0">>]),
     Some([content_type |-> "jq", rules |-> <<".y == 1", ".x > 0">>]),
     Some([content_type |-> "default", rules |-> <<>>])}

\* the versions arrays of at most MaxVersions entries, in every order of
\* their sequence numbers
TransformVersionLists ==
    UNION {{vs \in [1..k -> [version : 1..MaxVersions, type_schema : SchemaTexts,
                              evaluator : WireEvaluators]] :
               \A i, j \in 1..k : i # j => vs[i].version # vs[j].version} :
           k \in 0..MaxVersions}

\* GET responses: with a versions array, and with or without an evaluator at
\* the top level of the object (the answer to ?version=N)
TransformWireObjects ==
    {[name |-> "wire", description |-> "d2", versions |-> vs, archived |-> FALSE] :
        vs \in TransformVersionLists}
    \cup {[name |-> "wire", description |-> "d2", versions |-> vs, archived |-> FALSE,
           evaluator |-> e] :
            vs \in TransformVersionLists,
            e \in {[content_type |-> "jq", rules |-> <<".top">>],
                   [content_type |-> "default", rules |-> <<>>]}}

TransformRequests ==
    [Name : {"res-a"}, Description : {"", "d1"}, Schema : SchemaTexts,
     JqRules : SeqUpTo(Rules, MaxRules)]

\* a transformer about to be applied to an input
Pending(fn, in) == [fn |-> fn, in |-> in, pending |-> TRUE]

\* GetCustomAttestationType after ParseResponse: decode, then fromAPIFormat
ApplyFromAPIFormat ==
    /\ xf.fn = "fromAPIFormat" /\ xf.pending
    /\ xf' = [fn |-> xf.fn, in |-> xf.in, pending |-> FALSE,
              out |-> fromAPIFormat(DecodeCustomAttestationType(xf.in))]
    /\ UNCHANGED <<resourceVars, rt, cc>>

\* CreateCustomAttestationType: data := req.toAPIFormat()
ApplyToAPIFormat ==
    /\ xf.fn = "toAPIFormat" /\ xf.pending
    /\ xf' = [fn |-> xf.fn, in |-> xf.in, pending |-> FALSE,
              out |-> toAPIFormat(xf.in)]
    /\ UNCHANGED <<resourceVars, rt, cc>>

\* the non-2xx responses handed to parseErrorResponse: a status with or
\* without a standard phrase, and a body that is a JSON object with or
\* without the message and error fields, or text of some length, or nothing
ErrorStatuses == {400, 404, 500, 599}

ErrorBodies ==
    {JSONBody([message |-> "m", error |-> "e"]),
     JSONBody([message |-> "", error |-> "e"]),
     JSONBody([message |-> "m"]),
     JSONBody([error |-> "e"]),
     JSONBody([message |-> "", error |-> ""]),
     JSONBody([detail |-> "x"])}
    \cup {RawBody(IF n = 0 THEN "" ELSE "plain text", n) :
            n \in {0, 1, MaxRawBodyLen - 1, MaxRawBodyLen, MaxRawBodyLen + 1}}

ErrorResponses == {Response(st, b) : st \in ErrorStatuses, b \in ErrorBodies}

\* the statuses an APIError may carry
APIErrorStatuses == {400, 401, 403, 404, 409, 429, 499, 500, 503, 599, 600}

RECURSIVE Wrapped(_, _)
\* e under n layers of fmt.Errorf("...: %w", ...)
Wrapped(e, n) == IF n = 0 THEN e ELSE Errorf("context", Wrapped(e, n - 1))

\* the errors handed to the Is... helpers, each with the status of the
\* APIError it was built around (Null when it was built around none)
ClassifiedErrors ==
    {[err |-> Null, status |-> Null]}
    \cup {[err |-> Some(Wrapped([class |-> "APIError", StatusCode |-> st,
                                  Message |-> StatusText(st)], n)),
            status |-> Some(st)] : st \in APIErrorStatuses, n \in 0..MaxWrapDepth}
    \cup {[err |-> Some(Wrapped(ClientError(what), n)), status |-> Null] :
            what \in {"failed to execute request", "failed to unmarshal response"},
            n \in 0..MaxWrapDepth}

\* GET /environments/{org}/{name} as the data source sees it:
\* last_reported_at is absent, null or a number (0 included)
DataSourceEnvironmentObjects ==
    {[name |-> "env1", type |-> "K8S", description |-> d, last_modified_at |-> 123,
      include_scaling |-> FALSE] : d \in {"", "d2"}}
    \cup {[name |-> "env1", type |-> "K8S", description |-> d, last_modified_at |-> 123,
           include_scaling |-> FALSE, last_reported_at |-> r] :
            d \in {"", "d2"}, r \in {JSONNull, JSONNumber(0), JSONNumber(789)}}

DataSourceGetOutcomes ==
    GetErrorOutcomes
    \cup {Response(200, JSONBody(o)) : o \in DataSourceEnvironmentObjects}

\* the data source kosli_environment is read
ApplyEnvironmentDataSourceRead ==
    /\ xf.fn = "environmentDataSourceRead" /\ xf.pending
    /\ xf' = [fn |-> xf.fn, in |-> xf.in, pending |-> FALSE,
              out |-> [env |-> GetEnvironment("env1", xf.in).env,
                       read |-> environmentDataSourceRead([name |-> Some("env1")], xf.in)]]
    /\ UNCHANGED <<resourceVars, rt, cc>>

\* the timeouts a configuration may ask for, below and above the default
Timeouts == {10, 60}

\* the option lists handed to NewClient, in every order
TimeoutOptionLists ==
    SeqUpTo({[opt |-> "WithTimeout", timeout |-> t] : t \in Timeouts}
            \cup {[opt |-> "WithRetryPolicy", retryMax |-> n] : n \in 0..MaxRetryMax}
            \cup {[opt |-> "WithHTTPClient"]},
            MaxOptions)

\* a client is built from a list of options
ApplyNewClient ==
    /\ xf.fn = "NewClient" /\ xf.pending
    /\ xf' = [fn |-> xf.fn, in |-> xf.in, pending |-> FALSE, out |-> NewClient(xf.in)]
    /\ UNCHANGED <<resourceVars, rt, cc>>

\* doRequest on a non-2xx response: return nil, parseErrorResponse(resp)
ApplyParseErrorResponse ==
    /\ xf.fn = "parseErrorResponse" /\ xf.pending
    /\ xf' = [fn |-> xf.fn, in |-> xf.in, pending |-> FALSE,
              out |-> parseErrorResponse(xf.in)]
    /\ UNCHANGED <<resourceVars, rt, cc>>

\* the caller of an operation classifies the error it got
ApplyIsHelpers ==
    /\ xf.fn = "Is" /\ xf.pending
    /\ xf' = [fn |-> xf.fn, in |-> xf.in, pending |-> FALSE,
              out |-> [IsBadRequest      |-> IsBadRequest(xf.in.err),
                       IsUnauthorized    |-> IsUnauthorized(xf.in.err),
                       IsForbidden       |-> IsForbidden(xf.in.err),
                       IsNotFound        |-> IsNotFound(xf.in.err),
                       IsConflict        |-> IsConflict(xf.in.err),
                       IsTooManyRequests |-> IsTooManyRequests(xf.in.err),
                       IsServerError     |-> IsServerError(xf.in.err)]]
    /\ UNCHANGED <<resourceVars, rt, cc>>

TransformInit ==
    /\ kind = "custom_attestation_type"
    /\ state = Null
    /\ op = NoOp
    /\ calls = <<>>
    /\ diags = <<>>
    /\ saved = FALSE
    /\ lastPlan = Null
    /\ rt = Idle
    /\ cc = NoClient
    /\ xf \in {Pending("fromAPIFormat", obj) : obj \in TransformWireObjects}
             \cup {Pending("toAPIFormat", req) : req \in TransformRequests}
             \cup {Pending("parseErrorResponse", resp) : resp \in ErrorResponses}
             \cup {Pending("Is", e) : e \in ClassifiedErrors}
             \cup {Pending("environmentDataSourceRead", gOut) :
                      gOut \in DataSourceGetOutcomes}
             \cup {Pending("NewClient", opts) : opts \in TimeoutOptionLists}

TransformNext ==
    \/ ApplyFromAPIFormat
    \/ ApplyToAPIFormat
    \/ ApplyParseErrorResponse
    \/ ApplyIsHelpers
    \/ ApplyEnvironmentDataSourceRead
    \/ ApplyNewClient

TransformSpec == TransformInit /\ [][TransformNext]_vars

(***************************************************************************)
(* One client operation through c.httpClient, attempt by attempt           *)
(***************************************************************************)
\* the options handed to NewClient: none, WithHTTPClient or WithRetryPolicy
ClientOptions ==
    {<<>>, <<[opt |-> "WithHTTPClient"]>>}
    \cup {<<[opt |-> "WithRetryPolicy", retryMax |-> n]>> : n \in 0..MaxRetryMax}

ClientOperations == {"Get", "Post", "Put", "Delete", "CreateCustomAttestationType"}

\* what the server, or the network, answers to one attempt
ServerAnswers ==
    {TransportFailure, UnrecoverableFailure,
     Response(200, JSONBody([result |-> "success"])),
     Response(201, RawBody("OK", 2)),
     Response(304, RawBody("", 0)),
     Response(404, JSONBody([message |-> "not found"])),
     Response(429, JSONBody([message |-> "slow down"])),
     Response(501, RawBody("", 0)),
     Response(503, JSONBody([message |-> "service unavailable"]))}

\* variant: the client remembers what it has written and refuses to write
\* it again
ClientOperationResult_RejectsRepeat(operation, out) ==
    LET path == <<"test">>
        body == Some([name |-> "res-a"])
        req  == [Name |-> "res-a", Description |-> "", Schema |-> "", JqRules |-> <<>>]
        env  == [Name |-> "res-a", Type |-> "K8S", Description |-> "",
                 IncludeScaling |-> FALSE, IncludedEnvironments |-> <<>>,
                 Policies |-> <<>>]
        r == CASE operation = "Get"    -> Get(path, out)
               [] operation = "CreateEnvironment" -> CreateEnvironment(env, out)
               [] operation = "Post"   -> Post(path, body, out)
               [] operation = "Put"    -> Put(path, body, out)
               [] operation = "Delete" -> Delete(path, out)
               [] operation = "CreateCustomAttestationType" ->
                     CreateCustomAttestationType(req, out)
        written == \E q \in DOMAIN cc.ops :
                      /\ cc.ops[q].pc = "done"
                      /\ cc.ops[q].op = operation
                      /\ cc.ops[q].err = Null
    IN  IF operation # "Get" /\ written
        THEN [err |-> Some(ClientError("already written")), resp |-> Null]
        ELSE [err |-> r.err, resp |-> Field(r, "resp", Null)]

\* the operation applied to what c.httpClient.Do returned
ClientOperationResult(operation, out) ==
    LET path == <<"test">>
        body == Some([name |-> "res-a"])
        req  == [Name |-> "res-a", Description |-> "", Schema |-> "", JqRules |-> <<>>]
        env  == [Name |-> "res-a", Type |-> "K8S", Description |-> "",
                 IncludeScaling |-> FALSE, IncludedEnvironments |-> <<>>,
                 Policies |-> <<>>]
        r == CASE operation = "Get"    -> Get(path, out)
               [] operation = "CreateEnvironment" -> CreateEnvironment(env, out)
               [] operation = "Post"   -> Post(path, body, out)
               [] operation = "Put"    -> Put(path, body, out)
               [] operation = "Delete" -> Delete(path, out)
               [] operation = "CreateCustomAttestationType" ->
                     CreateCustomAttestationType(req, out)
    IN  [err |-> r.err, resp |-> Field(r, "resp", Null)]

\* a client is built and one of its operations is called, with a context
\* that is live or already cancelled
ClientCall ==
    /\ rt.pc \in {"idle", "done"}
    /\ \E opts \in ClientOptions, operation \in ClientOperations,
          ctx \in {"live", "cancelled"} :
          rt' = [pc |-> "sending", httpClient |-> NewClient(opts), op |-> operation,
                 ctx |-> ctx, i |-> 0, answers |-> <<>>]
    /\ UNCHANGED <<resourceVars, xf, cc>>

\* the caller cancels the context while c.httpClient.Do is at work: during
\* an attempt, or during the wait before the next one
ClientCancel ==
    /\ rt.pc = "sending" /\ rt.ctx = "live"
    /\ rt' = [rt EXCEPT !.ctx = "cancelled"]
    /\ UNCHANGED <<resourceVars, xf, cc>>

\* one attempt: the request is sent and answered; the loop goes round
\* again, or c.httpClient.Do returns
ClientAttempt ==
    /\ rt.pc = "sending" /\ rt.ctx = "live"
    /\ \E ans \in ServerAnswers :
          LET answers == Append(rt.answers, ans)
          IN  IF Retries(rt.httpClient, rt.i, ans)
              THEN rt' = [rt EXCEPT !.i = @ + 1, !.answers = answers]
              ELSE rt' = [pc |-> "returned", httpClient |-> rt.httpClient, op |-> rt.op,
                          ctx |-> rt.ctx, i |-> rt.i, answers |-> answers,
                          out |-> HTTPClientDo(rt.httpClient, Len(answers), ans)]
    /\ UNCHANGED <<resourceVars, xf, cc>>

\* the context is done: the attempt in flight, or the wait before the next
\* attempt, ends with the context's error and c.httpClient.Do returns it
ClientAbort ==
    /\ rt.pc = "sending" /\ rt.ctx = "cancelled"
    /\ rt' = [pc |-> "returned", httpClient |-> rt.httpClient, op |-> rt.op,
              ctx |-> rt.ctx, i |-> rt.i, answers |-> rt.answers,
              out |-> Cancelled]
    /\ UNCHANGED <<resourceVars, xf, cc>>

\* the operation turns what Do returned into its response or its error
ClientReturn ==
    /\ rt.pc = "returned"
    /\ LET r == ClientOperationResult(rt.op, rt.out)
       IN  rt' = [pc |-> "done", httpClient |-> rt.httpClient, op |-> rt.op,
                  ctx |-> rt.ctx, i |-> rt.i, answers |-> rt.answers, out |-> rt.out,
                  err |-> r.err, resp |-> r.resp]
    /\ UNCHANGED <<resourceVars, xf, cc>>

ClientInit ==
    /\ kind = "environment"
    /\ state = Null
    /\ op = NoOp
    /\ calls = <<>>
    /\ diags = <<>>
    /\ saved = FALSE
    /\ lastPlan = Null
    /\ xf = NoCall
    /\ rt = Idle
    /\ cc = NoClient

ClientNext ==
    \/ ClientCall
    \/ ClientCancel
    \/ ClientAttempt
    \/ ClientAbort
    \/ ClientReturn

ClientSpec == ClientInit /\ [][ClientNext]_vars

(***************************************************************************)
(* Operations on the one client that Configure hands to every resource     *)
(* and data source, run at the same time                                   *)
(***************************************************************************)
ConcurrentOperations == {"Get", "CreateEnvironment", "CreateCustomAttestationType"}

\* the server acknowledges the request, refuses it, or is unavailable
ConcurrentAnswers ==
    {Response(200, RawBody("OK", 2)),
     Response(201, RawBody("OK", 2)),
     Response(409, JSONBody([message |-> "already exists"])),
     Response(503, RawBody("", 0))}

\* the options Configure, or a test, hands to NewClient
ConcurrentClientOptions ==
    {<<[opt |-> "WithHTTPClient"]>>}
    \cup {<<[opt |-> "WithRetryPolicy", retryMax |-> n]>> : n \in 0..MaxRetryMax}

\* operation p sends one attempt; the loop index i and the answers are
\* local to the call of c.httpClient.Do
ConcurrentAttempt(p) ==
    /\ cc.ops[p].pc = "sending"
    /\ \E ans \in ConcurrentAnswers :
          LET o == cc.ops[p]
              answers == Append(o.answers, ans)
          IN  IF Retries(cc.httpClient, o.i, ans)
              THEN cc' = [cc EXCEPT !.ops[p] =
                            [pc |-> "sending", op |-> o.op, i |-> o.i + 1,
                             answers |-> answers]]
              ELSE cc' = [cc EXCEPT !.ops[p] =
                            [pc |-> "returned", op |-> o.op, i |-> o.i,
                             answers |-> answers,
                             out |-> HTTPClientDo(cc.httpClient, Len(answers), ans)]]
    /\ UNCHANGED <<resourceVars, xf, rt>>

\* operation p turns what Do returned into its response or its error
ConcurrentReturn(p) ==
    /\ cc.ops[p].pc = "returned"
    /\ LET o == cc.ops[p]
           r == ClientOperationResult(o.op, o.out)
       IN  cc' = [cc EXCEPT !.ops[p] =
                     [pc |-> "done", op |-> o.op, i |-> o.i, answers |-> o.answers,
                      out |-> o.out, err |-> r.err, resp |-> r.resp]]
    /\ UNCHANGED <<resourceVars, xf, rt>>

\* NewClient has returned and every operation has been called
ConcurrentInit ==
    /\ kind = "environment"
    /\ state = Null
    /\ op = NoOp
    /\ calls = <<>>
    /\ diags = <<>>
    /\ saved = FALSE
    /\ lastPlan = Null
    /\ xf = NoCall
    /\ rt = Idle
    /\ cc \in {[opts |-> opts, httpClient |-> NewClient(opts), ops |-> ops] :
                 opts \in ConcurrentClientOptions,
                 ops \in [1..MaxOperations ->
                            {[pc |-> "sending", op |-> operation, i |-> 0,
                              answers |-> <<>>] : operation \in ConcurrentOperations}]}

ConcurrentNext ==
    \E p \in 1..MaxOperations :
        \/ ConcurrentAttempt(p)
        \/ ConcurrentReturn(p)

ConcurrentSpec == ConcurrentInit /\ [][ConcurrentNext]_vars

(***************************************************************************)
(* Vocabulary of the properties                                            *)
(***************************************************************************)
ResourcePath(k) ==
    IF k = "custom_attestation_type" THEN "custom-attestation-types" ELSE "environments"

\* the write request of a resource type: the multipart POST, or the PUT upsert
IsWrite(k, x) ==
    /\ x.req.path = <<ResourcePath(k), Organization>>
    /\ x.req.body # Null
    /\ IF k = "custom_attestation_type"
       THEN x.req.method = "POST" /\ x.req.contentType = "multipart/form-data"
       ELSE x.req.method = "PUT" /\ x.req.contentType = "application/json"

\* the name a write request carries
WrittenName(k, x) ==
    IF k = "custom_attestation_type"
    THEN x.req.body[1].data_json.name
    ELSE x.req.body[1].name

IsGetOf(k, x, name) ==
    /\ x.req.method = "GET"
    /\ x.req.path = <<ResourcePath(k), Organization, name>>
    /\ x.req.body = Null

IsArchiveOf(k, x, name) ==
    /\ x.req.method = "PUT"
    /\ x.req.path = <<ResourcePath(k), Organization, name, "archive">>
    /\ x.req.body = Null

\* the write was answered with something the client takes for a failure
WriteRejected(k, out) ==
    \/ out.neterr
    \/ IF k = "custom_attestation_type"
       THEN out.status # 201
       ELSE out.status < 200 \/ out.status >= 300

\* the GET was answered with something the client takes for a failure
GetRejected(out) ==
    \/ out.neterr
    \/ out.status < 200 \/ out.status >= 300
    \/ ~out.body.isJSON

AnsweredNotFound(out) == ~out.neterr /\ out.status = 404

WriteFailureSummary(k, name) ==
    CASE k = "environment" /\ name = "Create" -> "Error Creating Environment"
      [] k = "environment" /\ name = "Update" -> "Error Updating Environment"
      [] k = "logical_environment" /\ name = "Create" -> "Error Creating Logical Environment"
      [] k = "logical_environment" /\ name = "Update" -> "Error Updating Logical Environment"
      [] k = "custom_attestation_type" /\ name = "Create" -> "Error Creating Custom Attestation Type"
      [] k = "custom_attestation_type" /\ name = "Update" -> "Error Updating Custom Attestation Type"

FollowUpFailureSummary(k, name) ==
    CASE k = "environment" /\ name = "Create" -> "Error Reading Environment After Creation"
      [] k = "environment" /\ name = "Update" -> "Error Reading Environment After Update"
      [] k = "logical_environment" /\ name = "Create" ->
            "Error Reading Logical Environment After Creation"
      [] k = "logical_environment" /\ name = "Update" ->
            "Error Reading Logical Environment After Update"
      [] k = "custom_attestation_type" /\ name = "Create" ->
            "Error Reading Custom Attestation Type After Creation"
      [] k = "custom_attestation_type" /\ name = "Update" ->
            "Error Reading Custom Attestation Type After Update"

ReadFailureSummary(k) ==
    CASE k = "environment" -> "Error Reading Environment"
      [] k = "logical_environment" -> "Error Reading Logical Environment"
      [] k = "custom_attestation_type" -> "Error Reading Custom Attestation Type"

\* the attributes of a saved state that come from the object a GET returned
BuiltFromObject(k, st, obj) ==
    /\ ValueString(st.description) = Field(obj, "description", "")
    /\ k = "environment" => st.include_scaling = Field(obj, "include_scaling", FALSE)
    /\ k = "logical_environment" => st.type = Field(obj, "type", "")
    /\ k = "custom_attestation_type" =>
          LET versions == Field(obj, "versions", <<>>)
          IN  st.schema = IF versions = <<>> THEN "" ELSE versions[1].type_schema

(***************************************************************************)
(* Properties                                                              *)
(***************************************************************************)
\* C1: for the logical environment resource, after any sequence of
\* successful Create, Update and Read operations the included_environments
\* of the saved state is the list of the most recent Create/Update plan,
\* whatever included_environments the GET response carries.
C1_IncludedEnvironmentsFromPlan ==
    (kind = "logical_environment" /\ state # Null) =>
        /\ lastPlan # Null
        /\ state[1].included_environments = lastPlan[1].included_environments

\* a Read saved a non-empty list although the GET response carried another
C1_Witness ==
    /\ kind = "logical_environment" /\ op.name = "Read" /\ saved
    /\ state[1].included_environments # <<>>
    /\ "included_environments" \in DOMAIN calls[1].out.body.obj
    /\ calls[1].out.body.obj.included_environments # state[1].included_environments

\* C2: Create of every resource type makes one write call first and, when
\* the write is accepted, exactly one GET of the same name after it; a
\* Create that reports no error made exactly these two calls, and the state
\* it saves is built from the GET response, not from the write's response.
C2_CreateWritesThenReads ==
    op.name = "Create" =>
        /\ Len(calls) \in {1, 2}
        /\ IsWrite(kind, calls[1])
        /\ WrittenName(kind, calls[1]) = op.plan[1].name
        /\ Len(calls) = 2 <=> ~WriteRejected(kind, calls[1].out)
        /\ Len(calls) = 2 => IsGetOf(kind, calls[2], op.plan[1].name)
        /\ (diags = <<>>) = saved
        /\ saved =>
              /\ Len(calls) = 2
              /\ state # Null
              /\ state[1].name = op.plan[1].name
              /\ BuiltFromObject(kind, state[1], calls[2].out.body.obj)

\* a Create saved a state whose description differs from the one in the
\* object the write call answered with
C2_Witness ==
    /\ op.name = "Create" /\ saved
    /\ calls[1].out.body.isJSON
    /\ ValueString(state[1].description) # calls[1].out.body.obj.description

\* C3: in Create and Update of every resource type, when the write call
\* fails the handler issues no follow-up GET, reports one error that names
\* the operation and the resource, and saves no state.
C3_WriteFailureReturnsAtOnce ==
    (op.name \in {"Create", "Update"} /\ WriteRejected(kind, calls[1].out)) =>
        /\ Len(calls) = 1
        /\ Len(diags) = 1
        /\ diags[1].summary = WriteFailureSummary(kind, op.name)
        /\ diags[1].name = op.plan[1].name
        /\ ~saved
        /\ op.name = "Create" => state = Null
        /\ op.name = "Update" => state # Null

\* an Update whose write was answered with an API error
C3_Witness ==
    /\ op.name = "Update"
    /\ ~calls[1].out.neterr /\ calls[1].out.status = 404
    /\ Len(diags) = 1 /\ diags[1].err.class = "APIError"

\* C4: in Create and Update of every resource type, when the write succeeds
\* and the follow-up GET fails the handler reports one error, different from
\* the write-failure error and from the error of a plain Read, that says the
\* read after the creation or update failed; it saves no state.
C4_FollowUpFailureReported ==
    (op.name \in {"Create", "Update"} /\ Len(calls) = 2 /\ GetRejected(calls[2].out)) =>
        /\ Len(diags) = 1
        /\ diags[1].summary = FollowUpFailureSummary(kind, op.name)
        /\ diags[1].summary # WriteFailureSummary(kind, op.name)
        /\ diags[1].summary # ReadFailureSummary(kind)
        /\ diags[1].name = op.plan[1].name
        /\ ~saved
        /\ op.name = "Create" => state = Null

\* a Create whose write was accepted and whose follow-up GET answered 404
C4_Witness ==
    /\ op.name = "Create" /\ Len(calls) = 2
    /\ ~WriteRejected(kind, calls[1].out)
    /\ AnsweredNotFound(calls[2].out)
    /\ Len(diags) = 1

\* C5: in Read of every resource type, when the GET answers 404 the handler
\* removes the resource from the state and reports no error.
C5_ReadNotFoundRemovesResource ==
    (op.name = "Read" /\ AnsweredNotFound(calls[1].out)) =>
        /\ diags = <<>>
        /\ state = Null

\* C6: Delete of every resource type succeeds, with no error diagnostic,
\* when the archive call answers not-found.
C6_DeleteNotFoundSucceeds ==
    (op.name \in {"Delete", "Replace"} /\ AnsweredNotFound(calls[1].out)) =>
        /\ diags = <<>>
        /\ state = Null

\* C7: Delete of every resource type issues exactly one request: a PUT,
\* with no body, to the archive endpoint of the name held in prior state.
C7_DeleteIsOneArchiveCall ==
    op.name \in {"Delete", "Replace"} =>
        /\ Len(calls) = 1
        /\ IsArchiveOf(kind, calls[1], op.prior[1].name)

\* a Delete archived the resource and the state is gone
C7_Witness ==
    /\ op.name = "Delete" /\ diags = <<>> /\ state = Null
    /\ Len(calls) = 1 /\ calls[1].req.method = "PUT"

\* the requests Create issues for a plan under the given outcomes
CreateCalls(k, plan, wOut, gOut) ==
    CASE k = "environment" -> environmentResourceCreate(plan, wOut, gOut).calls
      [] k = "logical_environment" -> logicalEnvironmentResourceCreate(plan, wOut, gOut).calls
      [] k = "custom_attestation_type" ->
            customAttestationTypeResourceCreate(plan, wOut, gOut).calls

\* the write request carries every configurable attribute of the plan
CarriesDesiredState(k, x, plan) ==
    LET body == x.req.body[1]
    IN  CASE k = "environment" ->
                /\ body.name = plan.name
                /\ body.type = plan.type
                /\ body.description = ValueString(plan.description)
                /\ body.include_scaling = plan.include_scaling
          [] k = "logical_environment" ->
                /\ body.name = plan.name
                /\ body.description = ValueString(plan.description)
                /\ body.included_environments = plan.included_environments
          [] k = "custom_attestation_type" ->
                /\ body.data_json.name = plan.name
                /\ body.data_json.description = ValueString(plan.description)
                /\ body.data_json.evaluator.rules = plan.jq_rules
                /\ body.type_schema = Some(plan.schema)

\* C8: Update of every resource type issues the write call Create would
\* issue for the same plan (the multipart POST for attestation types, the
\* PUT upsert for environments), carrying the full desired state, followed
\* by the same follow-up GET; it issues no other call.
C8_UpdateIssuesTheCallsOfCreate ==
    op.name = "Update" =>
        LET gOut == IF Len(calls) = 2 THEN calls[2].out ELSE Response(500, RawBody("", 0))
            c    == CreateCalls(kind, op.plan[1], calls[1].out, gOut)
        IN  /\ Len(calls) = Len(c)
            /\ \A i \in 1..Len(calls) : calls[i].req = c[i].req
            /\ IsWrite(kind, calls[1])
            /\ CarriesDesiredState(kind, calls[1], op.plan[1])
            /\ Len(calls) = 2 => IsGetOf(kind, calls[2], op.plan[1].name)
            /\ saved => Len(calls) = 2

\* an Update of an environment that turns include_scaling on and saves
C8_Witness ==
    /\ op.name = "Update" /\ kind = "environment" /\ saved
    /\ Len(calls) = 2
    /\ calls[1].req.body[1].include_scaling
    /\ calls[1].req.body[1].description = "d1"

\* C9: a plan that changes name (any resource type) or type (environment)
\* is carried out as a replacement: no Update ever issues a write call whose
\* name, or environment type, differs from the prior state.
C9_NoUpdateOfImmutableAttributes ==
    op.name = "Update" =>
        /\ WrittenName(kind, calls[1]) = op.prior[1].name
        /\ kind = "environment" => calls[1].req.body[1].type = op.prior[1].type

\* a plan changed only the type of an environment: the resource was
\* archived for replacement and no upsert with the new type was issued
C9_Witness ==
    /\ op.name = "Replace" /\ kind = "environment"
    /\ op.plan[1].name = op.prior[1].name
    /\ op.plan[1].type # op.prior[1].type
    /\ Len(calls) = 1 /\ IsArchiveOf(kind, calls[1], op.prior[1].name)

\* C10: for the logical environment resource every write payload carries
\* type "logical" and every saved state has type "logical", whatever type
\* the GET response reports.
C10_LogicalTypeIsFixed ==
    kind = "logical_environment" =>
        /\ \A i \in 1..Len(calls) :
              IsWrite(kind, calls[i]) => calls[i].req.body[1].type = "logical"
        /\ state # Null => state[1].type = "logical"

\* C15: schema and jq_rules of a custom attestation type are optional: a
\* configuration that sets only name and description, only schema or only
\* jq_rules passes validation, and a write carries the type_schema part
\* exactly when its request has a schema.
C15_SchemaAndRulesAreOptional ==
    /\ (kind = "custom_attestation_type" /\ op.name = "Validate") => diags = <<>>
    /\ (kind = "custom_attestation_type" /\ op.name \in {"Create", "Update"}) =>
          (calls[1].req.body[1].type_schema = Null <=> op.plan[1].schema = "")

\* C16: a resource of any type whose configuration leaves description out
\* has a null description, never "", in the state saved by Create, Update
\* or Read when the GET response carries an empty description.
C16_NullDescriptionPreserved ==
    (/\ op.name \in {"Create", "Update", "Read"} /\ saved
     /\ lastPlan # Null /\ lastPlan[1].description = Null
     /\ Field(calls[Len(calls)].out.body.obj, "description", "") = "") =>
        state[1].description = Null

\* the entry of a non-empty versions array with the highest sequence number
HighestVersion(versions) ==
    CHOOSE v \in {versions[i] : i \in 1..Len(versions)} :
        \A i \in 1..Len(versions) : versions[i].version <= v.version

\* the jq rules an evaluator carries: none unless its content type is jq
RulesOf(evaluator) ==
    IF evaluator # Null /\ evaluator[1].content_type = "jq"
    THEN evaluator[1].rules
    ELSE <<>>

\* C11: for a response with one or more versions, in any array order,
\* fromAPIFormat takes Schema and JqRules from the version with the highest
\* sequence number and from no other.
C11_LatestVersionByNumber ==
    (xf.fn = "fromAPIFormat" /\ ~xf.pending /\ Len(xf.in.versions) > 0) =>
        LET latest == HighestVersion(xf.in.versions)
        IN  /\ xf.out.Schema = latest.type_schema
            /\ xf.out.JqRules = RulesOf(latest.evaluator)

\* C12: a response without versions that carries an evaluator at its top
\* level yields that evaluator's rules as JqRules when its content type is
\* jq; when versions are present the nested data is used.
C12_TopLevelEvaluatorFallback ==
    (xf.fn = "fromAPIFormat" /\ ~xf.pending /\ "evaluator" \in DOMAIN xf.in) =>
        IF Len(xf.in.versions) = 0
        THEN xf.out.JqRules = RulesOf(Some(xf.in.evaluator))
        ELSE xf.out.JqRules = RulesOf(xf.in.versions[1].evaluator)

\* a text without white space whose string literals are double-quoted
CompactJSON(text) ==
    LET Significant(tok) == tok.t # "space"
        kept == SelectSeq(text, Significant)
    IN  [i \in 1..Len(kept) |->
            IF kept[i].t = "string" THEN Literal(DoubleQuote, kept[i].v) ELSE kept[i]]

\* C13: the Schema fromAPIFormat produces is the compact JSON form of the
\* type_schema it was taken from: white space removed and single-quoted
\* Python notation turned into JSON, whatever the evaluator's content type.
C13_SchemaIsCompactJSON ==
    (xf.fn = "fromAPIFormat" /\ ~xf.pending /\ Len(xf.in.versions) > 0) =>
        /\ xf.out.Schema = CompactJSON(xf.out.Schema)
        /\ \E i \in 1..Len(xf.in.versions) :
              xf.out.Schema = CompactJSON(xf.in.versions[i].type_schema)

\* C14: toAPIFormat leaves the evaluator key out when the request has no
\* jq rules, and otherwise sends evaluator {content_type: "jq", rules: the
\* request's rules in their order}.
C14_EvaluatorOmittedWhenNoRules ==
    (xf.fn = "toAPIFormat" /\ ~xf.pending) =>
        IF xf.in.JqRules = <<>>
        THEN "evaluator" \notin DOMAIN xf.out
        ELSE /\ "evaluator" \in DOMAIN xf.out
             /\ xf.out.evaluator = [content_type |-> "jq", rules |-> xf.in.JqRules]

IsStatus(ans, lo, hi) == ~ans.neterr /\ ans.status >= lo /\ ans.status <= hi

\* a 4xx answer other than 429
IsClientError(ans) == IsStatus(ans, 400, 499) /\ ans.status # 429

\* the operation returned the APIError of the answer
ReturnedAPIErrorOf(ans) ==
    /\ rt.err # Null
    /\ rt.err[1].class = "APIError"
    /\ rt.err[1].StatusCode = ans.status

\* C17: an attempt answered with a 4xx other than 429 is the last attempt
\* of its request, whatever the retry policy: when it is the first answer
\* exactly one attempt is made, and the operation returns the APIError of
\* that answer (IsNotFound holds of it for a 404).
C17_ClientErrorsAreNotRetried ==
    \A j \in 1..Len(Field(rt, "answers", <<>>)) :
        IsClientError(rt.answers[j]) =>
            /\ j = Len(rt.answers)
            /\ rt.pc # "sending"
            /\ rt.pc = "done" =>
                  /\ ReturnedAPIErrorOf(rt.answers[j])
                  /\ rt.answers[j].status = 404 => IsNotFound(rt.err)

\* a GET through a client that may retry was answered 404 at once
C17_Witness ==
    /\ rt.pc = "done" /\ rt.op = "Get"
    /\ rt.httpClient.retrying /\ rt.httpClient.RetryMax > 0
    /\ Len(rt.answers) = 1 /\ IsStatus(rt.answers[1], 404, 404)
    /\ IsNotFound(rt.err)

\* C18: the multipart POST of CreateCustomAttestationType is sent at most
\* once per call, also when the server answers 5xx or 429.
C18_AttestationTypeWriteSentOnce ==
    (rt.pc # "idle" /\ rt.op = "CreateCustomAttestationType") => Len(rt.answers) <= 1

\* the client was built by WithRetryPolicy(N) or by default, and the call is
\* a GET that nobody cancelled
IsRetryingGet ==
    rt.pc = "done" /\ rt.op = "Get" /\ rt.httpClient.retrying /\ rt.ctx = "live"

\* C19 as stated: a GET under WithRetryPolicy(N) answered 5xx at every
\* attempt is attempted exactly N+1 times and returns an error; when an
\* attempt is answered 2xx it is the last one and the call succeeds with
\* that response.
C19_RetryCountAnyServerError ==
    IsRetryingGet =>
        /\ (\A j \in 1..Len(rt.answers) : IsStatus(rt.answers[j], 500, 599)) =>
              (Len(rt.answers) = rt.httpClient.RetryMax + 1 /\ rt.err # Null)
        /\ \A k \in 1..Len(rt.answers) :
              IsStatus(rt.answers[k], 200, 299) =>
                  (k = Len(rt.answers) /\ rt.err = Null /\ rt.resp = Some(rt.answers[k]))

\* a 5xx answer that DefaultRetryPolicy retries: any but 501
IsRetriedServerError(ans) == IsStatus(ans, 500, 599) /\ ans.status # 501

\* C19 amended: as C19, for the 5xx answers other than 501; a 501 is not
\* retried.
C19_RetryCount ==
    IsRetryingGet =>
        /\ (\A j \in 1..Len(rt.answers) : IsRetriedServerError(rt.answers[j])) =>
              (Len(rt.answers) = rt.httpClient.RetryMax + 1 /\ rt.err # Null)
        /\ \A k \in 1..Len(rt.answers) :
              IsStatus(rt.answers[k], 200, 299) =>
                  (k = Len(rt.answers) /\ rt.err = Null /\ rt.resp = Some(rt.answers[k]))
        /\ \A k \in 1..Len(rt.answers) :
              IsStatus(rt.answers[k], 501, 501) => k = Len(rt.answers)

\* a GET under a policy with retries was answered 503 until it was abandoned
C19_Witness ==
    /\ IsRetryingGet /\ rt.httpClient.RetryMax >= 1
    /\ \A j \in 1..Len(rt.answers) : IsStatus(rt.answers[j], 503, 503)
    /\ Len(rt.answers) = rt.httpClient.RetryMax + 1
    /\ rt.err # Null

\* C20: an operation whose last answer is a response outside 2xx, the last
\* answer of an exhausted retry sequence included, returns the APIError
\* that carries the status of that response.
C20_NonSuccessIsAPIError ==
    (rt.pc = "done" /\ rt.ctx = "live" /\ ~rt.answers[Len(rt.answers)].neterr
        /\ ~IsStatus(rt.answers[Len(rt.answers)], 200, 299)) =>
        ReturnedAPIErrorOf(rt.answers[Len(rt.answers)])

\* what the precedence message field, error field, body text, status phrase
\* selects for a response; capped: a body text of MaxRawBodyLen bytes or more
\* is passed over
MessageByPrecedence(resp, capped) ==
    LET body == resp.body
    IN  IF body.isJSON /\ Field(body.obj, "message", "") # "" THEN body.obj.message
        ELSE IF body.isJSON /\ Field(body.obj, "error", "") # "" THEN body.obj.error
        ELSE IF ~body.isJSON /\ body.len > 0 /\ (capped => body.len < MaxRawBodyLen)
             THEN body.raw
        ELSE StatusText(resp.status)

\* C21 as stated: the message of an APIError is the JSON message field if
\* non-empty, else the JSON error field if non-empty, else the body text of
\* any non-empty body that is not JSON, else the status phrase, and it is
\* never empty.
C21_MessagePrecedenceAnyBody ==
    (xf.fn = "parseErrorResponse" /\ ~xf.pending) =>
        /\ xf.out.Message = MessageByPrecedence(xf.in, FALSE)
        /\ xf.out.Message # ""

\* C21: the message of an APIError is the JSON message field if non-empty,
\* else the JSON error field if non-empty, else the body text if the body
\* is not a JSON object, is non-empty and is shorter than 500 bytes, else
\* the standard status phrase; it is non-empty whenever the status has a
\* standard phrase.
C21_MessagePrecedence ==
    (xf.fn = "parseErrorResponse" /\ ~xf.pending) =>
        /\ xf.out.StatusCode = xf.in.status
        /\ xf.out.Message = MessageByPrecedence(xf.in, TRUE)
        /\ StatusText(xf.in.status) # "" => xf.out.Message # ""

\* a text body of 500 bytes or more fell back to the status phrase
C21_Witness ==
    /\ xf.fn = "parseErrorResponse" /\ ~xf.pending
    /\ ~xf.in.body.isJSON
    /\ xf.in.body.len >= MaxRawBodyLen
    /\ xf.out.Message = StatusText(xf.in.status)
    /\ xf.out.Message # ""

\* C22: IsBadRequest, IsUnauthorized, IsForbidden, IsNotFound, IsConflict
\* and IsTooManyRequests hold exactly for an error that wraps an APIError
\* with status 400, 401, 403, 404, 409 and 429, IsServerError exactly for
\* a status in 500..599; at most one of them holds, and none holds for an
\* error that wraps no APIError.
C22_HelpersClassifyByStatus ==
    (xf.fn = "Is" /\ ~xf.pending) =>
        LET has(st) == xf.in.status = Some(st)
            held == {h \in DOMAIN xf.out : xf.out[h]}
        IN  /\ xf.out.IsBadRequest      <=> has(400)
            /\ xf.out.IsUnauthorized    <=> has(401)
            /\ xf.out.IsForbidden       <=> has(403)
            /\ xf.out.IsNotFound        <=> has(404)
            /\ xf.out.IsConflict        <=> has(409)
            /\ xf.out.IsTooManyRequests <=> has(429)
            /\ xf.out.IsServerError     <=> \E st \in 500..599 : has(st)
            /\ Cardinality(held) <= 1
            /\ xf.in.status = Null => held = {}

\* a wrapped APIError 503 was classified as a server error
C22_Witness ==
    /\ xf.fn = "Is" /\ ~xf.pending
    /\ xf.in.err # Null /\ xf.in.err[1].class = "wrapped"
    /\ xf.in.status = Some(503)
    /\ xf.out.IsServerError

\* C23: every request the client sends, through doRequest or through the
\* multipart write of an attestation type, carries Authorization: "Bearer "
\* followed by the configured API token, and the configured User-Agent.
C23_RequestsAreAuthenticated ==
    \A i \in DOMAIN calls :
        /\ calls[i].req.authorization = "Bearer " \o APIToken
        /\ calls[i].req.userAgent = UserAgent

\* an attestation type was created: the multipart POST, then the GET
C23_Witness ==
    /\ kind = "custom_attestation_type" /\ op.name = "Create"
    /\ Len(calls) = 2
    /\ calls[1].req.contentType = "multipart/form-data"
    /\ calls[2].req.method = "GET"

\* errors.Is(err, context.Canceled)
IsCancellation(err) == err # Null /\ Unwraps(err[1], "context.Canceled") # Null

\* C24: when the context of a client call is cancelled, before or during
\* the request or between retry attempts, no further attempt is answered
\* and the call returns an error that wraps the cancellation, not a
\* response.
C24_CancellationAborts ==
    (rt.pc \in {"returned", "done"} /\ rt.ctx = "cancelled") =>
        /\ Len(rt.answers) = rt.i
        /\ rt.out = Cancelled
        /\ rt.pc = "done" => (IsCancellation(rt.err) /\ rt.resp = Null)

\* a retrying call was cancelled between its attempts, after a retried
\* answer, and returned the cancellation
C24_Witness ==
    /\ rt.pc = "done" /\ rt.ctx = "cancelled"
    /\ rt.httpClient.retrying
    /\ Len(rt.answers) >= 1
    /\ IsCancellation(rt.err)

\* the GET of the data source was answered with an environment object
DataSourceReadOf(obj) ==
    /\ xf.fn = "environmentDataSourceRead" /\ ~xf.pending
    /\ xf.in = Response(200, JSONBody(obj))

\* C25: when last_reported_at of the GET response is null or absent,
\* GetEnvironment yields a nil LastReportedAt and the Read of the
\* environment data source stores a null last_reported_at, not 0; a number
\* is passed through unchanged.
C25_NullLastReportedAt ==
    \A obj \in DataSourceEnvironmentObjects :
        DataSourceReadOf(obj) =>
            LET reported == Field(obj, "last_reported_at", JSONNull)
                expected == IF reported = JSONNull THEN Null ELSE Some(reported.v)
            IN  /\ xf.out.env # Null
                /\ xf.out.env[1].LastReportedAt = expected
                /\ xf.out.read.saved
                /\ xf.out.read.state[1].last_reported_at = expected

\* a response with "last_reported_at": null was read
C25_Witness ==
    \E obj \in DataSourceEnvironmentObjects :
        /\ DataSourceReadOf(obj)
        /\ "last_reported_at" \in DOMAIN obj /\ obj.last_reported_at = JSONNull
        /\ xf.out.read.state[1].last_reported_at = Null

\* the timeout the options ask for: that of the last WithTimeout, or the
\* default
RequestedTimeout(opts) ==
    LET ts == {i \in DOMAIN opts : opts[i].opt = "WithTimeout"}
    IN  IF ts = {} THEN DefaultTimeout
        ELSE opts[CHOOSE i \in ts : \A j \in ts : j <= i].timeout

\* C29: the timeout given with WithTimeout(T), or the 30 second default
\* without it, is the budget of each single HTTP call, whatever the order
\* of WithTimeout and WithRetryPolicy among the options and also under the
\* default retry policy: each round trip is limited to T, and no other
\* timeout spans the attempts of a retrying client.
C29_TimeoutIsPerCallBudget ==
    (xf.fn = "NewClient" /\ ~xf.pending
        /\ \A i \in DOMAIN xf.in : xf.in[i].opt # "WithHTTPClient") =>
        /\ AttemptTimeout(xf.out) = RequestedTimeout(xf.in)
        /\ xf.out.retrying => CallTimeout(xf.out) = NoTimeout

\* the server acknowledged the write of a finished operation: 201 Created
\* for an attestation type, 200 OK or another 2xx for an environment
Acknowledged(o) ==
    IF o.op = "CreateCustomAttestationType"
    THEN IsStatus(o.answers[Len(o.answers)], 201, 201)
    ELSE IsStatus(o.answers[Len(o.answers)], 200, 299)

\* C26: two calls of CreateEnvironment, or of CreateCustomAttestationType,
\* with the identical request on one client both return nil when the
\* server acknowledges each; the client is after them as NewClient built it.
C26_RepeatedWriteSucceeds ==
    \A p, q \in DOMAIN cc.ops :
        (/\ p # q
         /\ cc.ops[p].pc = "done" /\ cc.ops[q].pc = "done"
         /\ cc.ops[p].op = cc.ops[q].op
         /\ cc.ops[p].op \in {"CreateEnvironment", "CreateCustomAttestationType"}
         /\ Acknowledged(cc.ops[p]) /\ Acknowledged(cc.ops[q])) =>
            /\ cc.ops[p].err = Null /\ cc.ops[q].err = Null
            /\ cc.httpClient = NewClient(cc.opts)

\* CreateCustomAttestationType was called twice and acknowledged twice
C26_Witness ==
    /\ Len(cc.ops) >= 2
    /\ \A p \in 1..2 :
          /\ cc.ops[p].pc = "done"
          /\ cc.ops[p].op = "CreateCustomAttestationType"
          /\ Acknowledged(cc.ops[p])
          /\ cc.ops[p].err = Null

\* what the finished operation o is when it runs alone on the client c: its
\* attempts are those its own answers call for, and its result is that of
\* its last answer
AsWhenAlone(c, o) ==
    LET n    == Len(o.answers)
        last == o.answers[n]
        r    == ClientOperationResult(o.op, HTTPClientDo(c, n, last))
    IN  /\ n <= (IF c.retrying THEN c.RetryMax + 1 ELSE 1)
        /\ \A j \in 1..(n - 1) : DefaultRetryPolicy(o.answers[j]).shouldRetry
        /\ (c.retrying /\ DefaultRetryPolicy(last).shouldRetry) => n = c.RetryMax + 1
        /\ o.err = r.err /\ o.resp = r.resp

\* C28: operations that run at the same time on the shared client leave
\* the client as NewClient built it, and under every interleaving each of
\* them makes the attempts and returns the result it makes and returns
\* when it runs alone.
C28_OperationsAreIndependent ==
    /\ cc.ops # <<>> => cc.httpClient = NewClient(cc.opts)
    /\ \A p \in DOMAIN cc.ops :
          cc.ops[p].pc = "done" => AsWhenAlone(cc.httpClient, cc.ops[p])

\* one operation has finished after a retry while another, of another
\* kind, is in the middle of its retries
C28_Witness ==
    \E p, q \in DOMAIN cc.ops :
        /\ cc.ops[p].pc = "done" /\ Len(cc.ops[p].answers) >= 2
        /\ cc.ops[q].pc = "sending" /\ cc.ops[q].i >= 1
        /\ cc.ops[p].op # cc.ops[q].op

\* C27: a Create of a name that was archived just before issues the normal
\* write and, when the write is accepted, the follow-up GET of that name;
\* when the server accepts both it reports no error, no conflict either,
\* and saves the state.
C27_RecreateAfterArchive ==
    (op.name = "Create" /\ op.prior # Null) =>
        /\ op.prior[1].name = op.plan[1].name
        /\ Len(calls) >= 1
        /\ IsWrite(kind, calls[1])
        /\ WrittenName(kind, calls[1]) = op.plan[1].name
        /\ ~WriteRejected(kind, calls[1].out) =>
              /\ Len(calls) = 2
              /\ IsGetOf(kind, calls[2], op.plan[1].name)
              /\ ~GetRejected(calls[2].out) =>
                    (diags = <<>> /\ saved /\ state[1].name = op.plan[1].name)

\* an environment was archived and created again under its name
C27_Witness ==
    /\ kind = "environment" /\ op.name = "Create" /\ op.prior # Null
    /\ op.prior[1].name = op.plan[1].name
    /\ Len(calls) = 2 /\ saved /\ diags = <<>>

\* C30: the type of every resource the handlers manage, the logical
\* environment included, is registered by Resources(), and its data source
\* by DataSources(), of the provider that New(version) builds.
C30_EveryTypeIsRegistered ==
    /\ kind \in Kinds => kind \in Resources
    /\ kind \in DataSourceKinds => kind \in DataSources
====
